---- MODULE Spec2Model ----
(***************************************************************************)
(* AirBuddy telemetry pipeline: TelemetryClient (bounded retry, persistent *)
(* store-and-forward queue), TelemetryScheduler / TelemetryState (interval *)
(* timer, real-data gate, last-sent record) and AirSensor acquisition.     *)
(*                                                                         *)
(* Conventions                                                             *)
(*  - Python None / a value is an "option": <<>> is None, <<v>> is v.      *)
(*  - a method is modelled by an operator that computes its whole effect   *)
(*    as a record; the action of a handler applies it to the state.        *)
(*  - the network is an input: a script of responses, consumed one per     *)
(*    requests.post call, the last one repeating.                          *)
(***************************************************************************)
EXTENDS Integers, Sequences, FiniteSets, TLC

VARIABLES
    queue,        \* content of QUEUE_FILE (telemetry_queue.json): list of payloads
    last_error,   \* TelemetryClient._last_error
    client_env,   \* what the client runs in: "ok", "no_urequests", "missing_device_auth",
                  \* "queue_open_fails", "queue_dump_fails", "queue_read_fails",
                  \* "queue_read_oom", "queue_not_list"
    air,          \* the AirSensor object: _last, _last_eco2_ppm, _last_aqi, _warmup_until, _warmup_source
    scheduler,    \* TelemetryState.scheduler: made or not, _next_send_ms, _last_reading, _client
    last_sent,    \* content of LAST_SENT_FILE (telemetry_last_sent.json): {"ts", "ok"}
    config,       \* the configuration load_config returns (config.json)
    uptime,       \* milliseconds since boot
    boot_ticks,   \* value of time.ticks_ms() at boot
    last_due,     \* history: start time, interval and number of the last tick that passed the due check
    call,         \* what the last operation did: its name, POSTs, sleeps, return value
    enq_count,    \* history: number of payloads handed to _enqueue so far
    drain_ok      \* history: the drain POST of some queued item has succeeded

vars == <<queue, last_error, client_env, air, scheduler, last_sent, config, uptime,
          boot_ticks, last_due, call, enq_count, drain_ok>>

\* the variables outside TelemetryClient
pipeVars == <<air, scheduler, last_sent, config, uptime, boot_ticks, last_due>>

-----------------------------------------------------------------------------
(* Options and small helpers *)

None == <<>>

Some(v) == <<v>>

IsNone(o) == o = <<>>

Get(o) == o[1]

Max2(a, b) == IF a >= b THEN a ELSE b

Min2(a, b) == IF a <= b THEN a ELSE b

\* Python's q[-n:] for n >= 1: the last n items (all of q when it is shorter)
LastN(q, n) == SubSeq(q, Max2(1, Len(q) - n + 1), Len(q))

\* Python's q[k:] for k >= 0
DropN(q, k) == SubSeq(q, k + 1, Len(q))

\* Python's "it in lst" (equality by value)
InList(it, lst) == \E i \in 1..Len(lst) : lst[i] = it

\* number of occurrences of it in lst
Count(it, lst) == Cardinality({i \in 1..Len(lst) : lst[i] = it})

\* all sequences over S of length at most n
RECURSIVE SeqsUpTo(_, _)
SeqsUpTo(S, n) ==
    IF n = 0 THEN {<<>>}
    ELSE LET shorter == SeqsUpTo(S, n - 1)
         IN shorter \cup {Append(s, x) : s \in {t \in shorter : Len(t) = n - 1}, x \in S}

-----------------------------------------------------------------------------
(* Program constants *)

\* TelemetryClient._enqueue(payload, max_items=100)
MAX_ITEMS == 100

\* TelemetryClient.send(payload, retries=3): default and upper clamp
SEND_RETRIES == 3

\* send: self.flush_queue(max_to_try=8)
SEND_FLUSH_MAX == 8

\* flush_queue(max_to_try=10)
FLUSH_DEFAULT_MAX == 10

\* main.py: warmup_s = 4.0 for air.begin_sampling at boot
WarmupS == 4

\* main.py: summary_screen.show_live(refresh_ms=3000)
SUMMARY_REFRESH_MS == 3000

-----------------------------------------------------------------------------
(* Bounds of the model *)

\* longest queue the client specification starts from
MaxQLen == 4

\* number of enqueues in a behaviour of the capacity specification
MaxCapEnq == 102

\* the capacity specification's payload stream repeats a payload once in so many
CapDupEvery == 50

\* the sensor and pipeline specifications stop calling after so many milliseconds
MaxAirUptime == 7000

MaxUptime == 13000

\* the pipeline specification follows a boot up to this many due ticks
MaxDueTicks == 2

\* boot_ticks of a device whose ticks counter wraps so many ms after boot
WrapSoonMs == 5000

\* the read at which a slow ENS160 first returns a valid sample
LateReads == 7

\* a configured interval whose milliseconds do not fit ticks_add
LongIntervalS == 600000

-----------------------------------------------------------------------------
(* Device clock *)

\* recorded_at below this is "rtc not epoch"
EPOCH_MIN == 1000000000

\* the wall clock of a synced device at boot
EpochBase == EPOCH_MIN + 700000000

\* the seconds after boot at which a clock that is being set reaches EPOCH_MIN
ClockTurnsS == 6

\* int(time.time()), or 0 when it raises: a synced clock ("epoch"), a clock
\* counting from a recent epoch ("small"), a clock that reaches EPOCH_MIN
\* ClockTurnsS seconds after boot ("turning"), and a failing one ("fails")
NowUnixSeconds(kind, up) ==
    IF kind = "fails" THEN 0
    ELSE IF kind = "small" THEN up \div 1000
    ELSE IF kind = "turning" THEN EPOCH_MIN - ClockTurnsS + (up \div 1000)
    ELSE EpochBase + (up \div 1000)

-----------------------------------------------------------------------------
(* Payloads *)

\* the values map of a payload, as _build_values fills it
MkValues(eco2, tvoc, temp, rh, aqi, ready, conf, rtc, note) ==
    [eco2_ppm |-> eco2, tvoc_ppb |-> tvoc, temp_c |-> temp, rh |-> rh,
     aqi |-> aqi, ready |-> ready, confidence |-> conf,
     rtc_temp_c |-> rtc, note |-> note]

\* payload = {"recorded_at": ..., "values": ..., "flags": {"auto_log": True}}
MkPayload(recorded_at, values) ==
    [recorded_at |-> recorded_at, values |-> values, flags |-> [auto_log |-> TRUE]]

\* a plausible reading's values: eco2 650 ppm, tvoc 10 ppb, 21 C, 40 %
GoodValues ==
    MkValues(Some(650), Some(10), Some(21), Some(40), Some(2), Some(TRUE), Some(85), None, None)

PayloadA == MkPayload(EpochBase, GoodValues)

PayloadB == MkPayload(EpochBase + 120, GoodValues)

PayloadC == MkPayload(EpochBase + 240, GoodValues)

\* the payloads of the client specification; by value, so the same payload
\* can be queued twice
ClientPayloads == {PayloadA, PayloadB, PayloadC}

-----------------------------------------------------------------------------
(* The network: what one requests.post call does *)

Status(code) == [kind |-> "status", code |-> code]

Raises(kind, code) == [kind |-> kind, code |-> code]

R200 == Status(200)

\* the failures the specifications script, in this order
FailScript == <<Status(500), Raises("MemoryError", 0), Raises("OSError", 110), Status(404)>>

\* a _post that takes every status below 400 as success
PostBelow400(payload, resp, env) ==
    IF env = "ok" /\ resp.kind = "status"
    THEN IF 200 <= resp.code /\ resp.code < 400
         THEN [ok |-> TRUE, msg |-> "OK"]
         ELSE [ok |-> FALSE, msg |-> "HTTP " \o ToString(resp.code)]
    ELSE [ok |-> FALSE, msg |-> "failed"]

\* TelemetryClient._post: (ok, msg)
Post(payload, resp, env) ==
    IF env = "no_urequests" THEN [ok |-> FALSE, msg |-> "no_urequests"]
    ELSE IF env = "missing_device_auth" THEN [ok |-> FALSE, msg |-> "missing_device_auth"]
    ELSE IF resp.kind = "MemoryError" THEN [ok |-> FALSE, msg |-> "ENOMEM"]
    ELSE IF resp.kind = "OSError"
         THEN [ok |-> FALSE, msg |-> "EXC OSError(" \o ToString(resp.code) \o ")"]
    ELSE IF resp.kind = "Exception" THEN [ok |-> FALSE, msg |-> "EXC Exception()"]
    ELSE IF resp.kind = "TypeError" THEN [ok |-> FALSE, msg |-> "EXC TypeError()"]
    ELSE IF resp.kind = "no_status" THEN [ok |-> FALSE, msg |-> "no_status"]
    ELSE IF 200 <= resp.code /\ resp.code < 300 THEN [ok |-> TRUE, msg |-> "OK"]
    ELSE [ok |-> FALSE, msg |-> "HTTP " \o ToString(resp.code)]

\* the i-th response of a script; the last one repeats
NetAt(net, i) == IF i <= Len(net) THEN net[i] ELSE net[Len(net)]

\* scripts: some failures (each of another kind), then some successes, then
\* failures again
NetScripts(maxFails, maxOks) ==
    {SubSeq(FailScript, 1, fails) \o [i \in 1..oks |-> R200] \o <<FailScript[fails + 1]>> :
        fails \in 0..maxFails, oks \in 0..maxOks}

\* one POST as the call record keeps it
PostRec(item, r) == [item |-> item, ok |-> r.ok, msg |-> r.msg]

-----------------------------------------------------------------------------
(* Queue file *)

\* the ways reading the queue file fails: open or load raises OSError, load
\* raises MemoryError, or the JSON in the file is not a list
QueueReadFailures == {"queue_read_fails", "queue_read_oom", "queue_not_list"}

\* TelemetryClient._load_queue: the list in the file, [] when it cannot be read
LoadQueue(file, env) == IF env \in QueueReadFailures THEN <<>> ELSE file

\* TelemetryClient._save_queue: the file after writing q. When open(.., "w")
\* fails the file stays as it was; when dump fails the file is left truncated
\* and _load_queue reads it as []
SaveQueue(file, q, env) ==
    IF env = "queue_open_fails" THEN file
    ELSE IF env = "queue_dump_fails" THEN <<>>
    ELSE q

\* a _save_queue that lets the failure of the write out
SaveQueuePropagates(env) ==
    IF env \in {"queue_open_fails", "queue_dump_fails"} THEN Some("OSError") ELSE None

\* the exception that leaves _save_queue: none, "except Exception: pass"
SaveQueueRaised(env) == None

\* an enqueue that stores nothing
EnqueueNothing(file, payload, max_items, env) == file

\* TelemetryClient._enqueue: the queue file after the call
EnqueueTrim(q, max_items) ==
    IF Len(q) > max_items THEN LastN(q, max_items) ELSE q

Enqueue(file, payload, max_items, env) ==
    SaveQueue(file, EnqueueTrim(Append(LoadQueue(file, env), payload), max_items), env)

-----------------------------------------------------------------------------
(* flush_queue *)

\* an argument given to int(): <<n>> converts to n, <<>> does not convert
IntArg(arg, default) == IF IsNone(arg) THEN default ELSE Get(arg)

FlushMax(arg) == Max2(1, IntArg(arg, FLUSH_DEFAULT_MAX))

\* the POST of item i of q, when it is POST number i of a flush_queue call
\* that starts after base responses of the script
FlushPost(q, i, net, base, env) == Post(q[i], NetAt(net, base + i), env)

\* the "for item in q" loop: it POSTs items 1, 2, ... while tried < max and
\* breaks at the first failure; result [new_q, tried, posts, last_error].
\*   - items past the max_to_try-th are appended to new_q untried;
\*   - a failed item is appended to new_q, its message kept, and the loop ends
FlushLoop(q, max, net, base, env, err) ==
    LET n == Min2(max, Len(q))
        failed == {i \in 1..n : ~FlushPost(q, i, net, base, env).ok}
        firstFail == IF failed = {} THEN 0
                     ELSE CHOOSE i \in failed : \A j \in failed : i <= j
        tried == IF firstFail > 0 THEN firstFail ELSE n
    IN [new_q |-> IF firstFail > 0 THEN <<q[firstFail]>> ELSE DropN(q, n),
        tried |-> tried,
        posts |-> [i \in 1..tried |-> PostRec(q[i], FlushPost(q, i, net, base, env))],
        last_error |-> IF firstFail > 0
                       THEN FlushPost(q, firstFail, net, base, env).msg ELSE err]

\* 1, 2, ..., n
Indices(n) == [i \in 1..n |-> i]

\* "for it in remaining: if it not in new_q: new_q.append(it)": item j of
\* remaining is appended unless it equals an item of new_q or an earlier item
\* of remaining (which by then is in new_q or equals one that is)
PreserveRemaining(new_q, remaining) ==
    LET Kept(j) == /\ ~InList(remaining[j], new_q)
                   /\ \A k \in 1..(j - 1) : remaining[k] # remaining[j]
        kept == SelectSeq(Indices(Len(remaining)), Kept)
    IN new_q \o [i \in 1..Len(kept) |-> remaining[kept[i]]]

\* a flush_queue that POSTs nothing and keeps the whole queue
FlushQueueKeepsAll(file, maxArg, net, base, env, err) ==
    [queue |-> file, posts |-> <<>>, last_error |-> err, raised |-> None]

\* TelemetryClient.flush_queue: [queue, posts, last_error]
FlushQueue(file, maxArg, net, base, env, err) ==
    LET q == LoadQueue(file, env)
        st == FlushLoop(q, FlushMax(maxArg), net, base, env, err)
        new_q == IF st.tried < Len(q)
                 THEN PreserveRemaining(st.new_q, DropN(q, st.tried))
                 ELSE st.new_q
    IN IF q = <<>>
       THEN [queue |-> file, posts |-> <<>>, last_error |-> err, raised |-> None]
       ELSE [queue |-> SaveQueue(file, new_q, env), posts |-> st.posts,
             last_error |-> st.last_error, raised |-> SaveQueueRaised(env)]

-----------------------------------------------------------------------------
(* send *)

\* retries without the clamp to at most 3
SendRetriesUnclamped(arg) == Max2(1, IntArg(arg, SEND_RETRIES))

\* retries = int(retries), 3 when that fails, clamped to 1..3
SendRetries(arg) == Min2(SEND_RETRIES, Max2(1, IntArg(arg, SEND_RETRIES)))

\* the sleep after failed attempt i: backoff starts at 1 and doubles
Backoff(i) == 2 ^ (i - 1)

\* attempt i of send: the POST of the fresh payload
SendPost(payload, i, net, env) == Post(payload, NetAt(net, i), env)

\* a loop that does not stop at the first success
SendAttemptsAll(payload, retries, net, env) == retries

\* the attempts the "for _ in range(retries)" loop makes: up to the first
\* success, or all of them
SendAttempts(payload, retries, net, env) ==
    LET oks == {i \in 1..retries : SendPost(payload, i, net, env).ok}
    IN IF oks = {} THEN retries ELSE CHOOSE i \in oks : \A j \in oks : i <= j

\* a send that runs flush_queue(max_to_try=8) before it looks at the outcome
\* of its attempts
SendFlushFirst(file, payload, retriesArg, net, env) ==
    LET n == SendAttempts(payload, SendRetries(retriesArg), net, env)
        last == SendPost(payload, n, net, env)
        f == FlushQueue(file, Some(SEND_FLUSH_MAX), net, n, env, last.msg)
    IN [ok |-> last.ok, msg |-> IF last.ok THEN "sent" ELSE "queued: " \o last.msg,
        queue |-> IF last.ok THEN f.queue ELSE Enqueue(f.queue, payload, MAX_ITEMS, env),
        posts |-> [i \in 1..n |-> PostRec(payload, SendPost(payload, i, net, env))],
        drain |-> f.posts,
        sleeps |-> [i \in 1..(IF last.ok THEN n - 1 ELSE n) |-> Backoff(i)],
        last_error |-> IF last.ok THEN f.last_error ELSE last.msg,
        enqueues |-> IF last.ok THEN <<>> ELSE <<payload>>, raised |-> f.raised]

\* TelemetryClient.send: [ok, msg, queue, posts, drain, sleeps, last_error,
\* enqueues, raised]; ok and msg are what it returns unless raised is set
\*   - every failed attempt is followed by time.sleep(backoff);
\*   - a success runs flush_queue(max_to_try=8) and returns (True, "sent");
\*   - after the last failure the payload is enqueued
Send(file, payload, retriesArg, net, env) ==
    LET n == SendAttempts(payload, SendRetries(retriesArg), net, env)
        last == SendPost(payload, n, net, env)
        posts == [i \in 1..n |-> PostRec(payload, SendPost(payload, i, net, env))]
        fails == IF last.ok THEN n - 1 ELSE n
        sleeps == [i \in 1..fails |-> Backoff(i)]
        f == FlushQueue(file, Some(SEND_FLUSH_MAX), net, n, env, last.msg)
    IN IF last.ok
       THEN [ok |-> TRUE, msg |-> "sent", queue |-> f.queue,
             posts |-> posts, drain |-> f.posts, sleeps |-> sleeps,
             last_error |-> f.last_error, enqueues |-> <<>>, raised |-> f.raised]
       ELSE [ok |-> FALSE, msg |-> "queued: " \o last.msg,
             queue |-> Enqueue(file, payload, MAX_ITEMS, env),
             posts |-> posts, drain |-> <<>>, sleeps |-> sleeps,
             last_error |-> last.msg, enqueues |-> <<payload>>,
             raised |-> SaveQueueRaised(env)]

-----------------------------------------------------------------------------
(* MicroPython millisecond ticks: a counter that wraps at TICKS_PERIOD *)

TICKS_PERIOD == 1073741824

TICKS_HALF == TICKS_PERIOD \div 2

\* time.ticks_ms() when the device has been up for up milliseconds
TicksMs(boot, up) == (boot + up) % TICKS_PERIOD

\* a difference that ignores the wrap of the counter
TicksDiffPlain(a, b) == a - b

\* time.ticks_diff(a, b): the signed difference, in -TICKS_HALF .. TICKS_HALF - 1
TicksDiff(a, b) == ((a - b + TICKS_HALF) % TICKS_PERIOD) - TICKS_HALF

\* time.ticks_add(t, delta) accepts delta strictly between -TICKS_HALF and
\* TICKS_HALF; outside it the runtime raises OverflowError or, in builds
\* without the check, wraps
TicksAddFits(delta) == -TICKS_HALF < delta /\ delta < TICKS_HALF

TicksAdd(t, delta) == (t + delta) % TICKS_PERIOD

-----------------------------------------------------------------------------
(* AirSensor: ENS160 retry loop *)

ECO2_MAX == 60000

TVOC_MAX == 65000

READ_ONCE_TIMEOUT_MS == 4500

READ_ONCE_STEP_MS == 250

QUICK_TIMEOUT_MS == 1000

QUICK_STEP_MS == 200

\* a raw sample (aqi, tvoc_ppb, eco2_ppm) as ENS160.read_air_raw returns it
MkSample(aqi, tvoc, eco2) == [aqi |-> aqi, tvoc_ppb |-> tvoc, eco2_ppm |-> eco2]

\* a validity heuristic that forgets the TVOC limit
EnsValuesLookReadyNoTvoc(s) ==
    IF s.aqi < 1 \/ s.aqi > 5 THEN FALSE
    ELSE IF s.eco2_ppm <= 0 THEN FALSE
    ELSE IF s.eco2_ppm > ECO2_MAX THEN FALSE
    ELSE TRUE

\* AirSensor._ens_values_look_ready
EnsValuesLookReady(s) ==
    IF s.aqi < 1 \/ s.aqi > 5 THEN FALSE
    ELSE IF s.eco2_ppm <= 0 THEN FALSE
    ELSE IF s.eco2_ppm > ECO2_MAX THEN FALSE
    ELSE IF s.tvoc_ppb > TVOC_MAX THEN FALSE
    ELSE TRUE

\* the bus is an input: a script of read_air_raw outcomes, one per loop
\* iteration, the last one repeating; <<s>> is a sample, <<>> an exception
BusAt(script, i) == IF i <= Len(script) THEN script[i] ELSE script[Len(script)]

\* iterations the loop makes when no sample is valid: iteration k starts
\* (k - 1) * per ms after the start, and runs while that is below timeout_ms
LoopIterations(timeout_ms, per) ==
    IF timeout_ms <= 0 THEN 0 ELSE (timeout_ms + per - 1) \div per

\* iteration i read a sample that passes the validity heuristic
LooksReadyAt(script, i) ==
    /\ ~IsNone(BusAt(script, i))
    /\ EnsValuesLookReady(Get(BusAt(script, i)))

\* a timeout that passes the last raw sample on as if it were ready
LoopTimeoutAsReady(last, n, per) ==
    [sample |-> IF IsNone(last) THEN MkSample(0, 0, 0) ELSE Get(last),
     ready |-> TRUE, reason |-> "", reads |-> n, elapsed |-> n * per, timed_out |-> TRUE]

\* the result of a loop that ended by timeout: "last" is what the final
\* iteration left (an exception in an iteration resets it to None)
LoopTimeout(last, n, per) ==
    IF IsNone(last)
    THEN [sample |-> MkSample(0, 0, 0), ready |-> FALSE, reason |-> "ens160 read failed",
          reads |-> n, elapsed |-> n * per, timed_out |-> TRUE]
    ELSE [sample |-> Get(last), ready |-> FALSE, reason |-> "ens160 not ready",
          reads |-> n, elapsed |-> n * per, timed_out |-> TRUE]

\* AirSensor._read_ens160_with_retry; every iteration takes io_ms on the bus
\* and then sleeps step_ms
ReadEns160WithRetry(script, timeout_ms, step_ms, io_ms) ==
    LET per == step_ms + io_ms
        n == LoopIterations(timeout_ms, per)
        ready == {i \in 1..n : LooksReadyAt(script, i)}
        first == IF ready = {} THEN 0 ELSE CHOOSE i \in ready : \A j \in ready : i <= j
    IN IF first > 0
       THEN [sample |-> Get(BusAt(script, first)), ready |-> TRUE, reason |-> "",
             reads |-> first, elapsed |-> (first - 1) * per + io_ms, timed_out |-> FALSE]
       ELSE LoopTimeout(IF n = 0 THEN None ELSE BusAt(script, n), n, per)

-----------------------------------------------------------------------------
(* AirSensor: confidence *)

Clamp(val, lo, hi) == IF val < lo THEN lo ELSE IF val > hi THEN hi ELSE val

Abs(x) == IF x < 0 THEN -x ELSE x

\* an eCO2 stability term whose steps include their limits
Eco2StabilityInclusive(eco2_ppm, last_eco2_ppm) ==
    IF IsNone(last_eco2_ppm) THEN 5
    ELSE IF Abs(eco2_ppm - Get(last_eco2_ppm)) <= 50 THEN 20
    ELSE IF Abs(eco2_ppm - Get(last_eco2_ppm)) <= 150 THEN 12
    ELSE IF Abs(eco2_ppm - Get(last_eco2_ppm)) <= 300 THEN 5
    ELSE 0

\* eCO2 stability: 20 / 12 / 5 / 0 by |delta|, flat 5 for a first reading
Eco2Stability(eco2_ppm, last_eco2_ppm) ==
    IF IsNone(last_eco2_ppm) THEN 5
    ELSE IF Abs(eco2_ppm - Get(last_eco2_ppm)) < 50 THEN 20
    ELSE IF Abs(eco2_ppm - Get(last_eco2_ppm)) < 150 THEN 12
    ELSE IF Abs(eco2_ppm - Get(last_eco2_ppm)) < 300 THEN 5
    ELSE 0

\* AQI stability: only when both values are known
AqiStability(aqi, last_aqi) ==
    IF IsNone(aqi) \/ IsNone(last_aqi) THEN 0
    ELSE IF Abs(Get(aqi) - Get(last_aqi)) <= 1 THEN 15
    ELSE 5

\* calculate_co2_confidence
CalculateCo2Confidence(ens_valid, warmup_done, temp_ok, rh_ok, eco2_ppm, last_eco2_ppm, aqi, last_aqi, source) ==
    Clamp((IF ens_valid THEN 30 ELSE 0)
          + (IF warmup_done THEN 10 ELSE 0)
          + (IF temp_ok THEN 10 ELSE 0)
          + (IF rh_ok THEN 10 ELSE 0)
          + Eco2Stability(eco2_ppm, last_eco2_ppm)
          + AqiStability(aqi, last_aqi)
          + (IF source # "fallback" THEN 5 ELSE 0),
          1, 100)

\* AirSensor._temp_ok, _rh_ok
TempOk(temp_c) == -10 <= temp_c /\ temp_c <= 60

RhOk(rh) == 0 <= rh /\ rh <= 100

-----------------------------------------------------------------------------
(* AirSensor: readings *)

\* the AirSensor object after construction
AirNew ==
    [last |-> None, last_eco2_ppm |-> None, last_aqi |-> None,
     warmup_until |-> None, warmup_source |-> None]

\* AirSensor._rating_from_aqi
RatingFromAqi(aqi) ==
    IF aqi <= 1 THEN "Very good"
    ELSE IF aqi = 2 THEN "Good"
    ELSE IF aqi = 3 THEN "Ok"
    ELSE "Poor"

\* the primary temperature / humidity: AHT21 if it read, else AHT10, else 0 / 0
ChooseEnv(aht21, aht10) ==
    IF ~IsNone(aht21) THEN [temp_c |-> Get(aht21).t, rh |-> Get(aht21).rh, src |-> "aht21"]
    ELSE IF ~IsNone(aht10) THEN [temp_c |-> Get(aht10).t, rh |-> Get(aht10).rh, src |-> "aht10"]
    ELSE [temp_c |-> 0, rh |-> 0, src |-> "none"]

SourceTag(source, env_src) ==
    IF env_src # "none" THEN source \o "+" \o env_src ELSE source

\* AirReading(...) as _read_once and read_quick build it from the loop's result
MkReading(ts, env, loop, source, conf, aht21, aht10) ==
    [timestamp |-> ts, temp_c |-> env.temp_c, humidity |-> env.rh,
     eco2_ppm |-> loop.sample.eco2_ppm, tvoc_ppb |-> loop.sample.tvoc_ppb,
     aqi |-> loop.sample.aqi,
     rating |-> IF loop.ready THEN RatingFromAqi(loop.sample.aqi) ELSE "Not ready",
     source |-> SourceTag(source, env.src), ready |-> loop.ready,
     confidence |-> conf, reason |-> loop.reason,
     aht10 |-> aht10, aht21 |-> aht21]

\* what an acquisition did: the sensor after it, the Reading returned (or
\* None), the exception raised to the caller, the loop's reads and time
AirResult(a, ret, raised, loop) ==
    [air |-> a, ret |-> ret, raised |-> raised, ran |-> TRUE,
     reads |-> loop.reads, elapsed |-> loop.elapsed, timed_out |-> loop.timed_out]

\* an acquisition that ended before the retry loop
AirNoLoop(a, ret, raised) ==
    [air |-> a, ret |-> ret, raised |-> raised, ran |-> FALSE,
     reads |-> 0, elapsed |-> 0, timed_out |-> FALSE]

\* _read_once: confidence is None when the helper is missing or raises
ReadOnceConfidence(a, bus, env, loop, source, warmup_done) ==
    IF bus.conf # "ok" THEN None
    ELSE Some(CalculateCo2Confidence(loop.ready, warmup_done, TempOk(env.temp_c),
                                     RhOk(env.rh), loop.sample.eco2_ppm, a.last_eco2_ppm,
                                     Some(loop.sample.aqi), a.last_aqi, source))

\* a _read_once that keeps every reading, ready or not
ReadOnceKeepAlways(a, r) ==
    [a EXCEPT !.last = Some(r), !.last_eco2_ppm = Some(r.eco2_ppm),
              !.last_aqi = Some(r.aqi)]

\* _read_once: a ready reading becomes the last accepted one and the baseline
ReadOnceKeep(a, r) ==
    IF r.ready
    THEN [a EXCEPT !.last = Some(r), !.last_eco2_ppm = Some(r.eco2_ppm),
                   !.last_aqi = Some(r.aqi)]
    ELSE a

\* AirSensor._read_once(source, warmup_done), started up ms after boot;
\* _ensure_hw raises when the bus or a driver cannot be set up; the Reading's
\* timestamp is taken after the retry loop
ReadOnce(a, bus, source, warmup_done, clock, up) ==
    IF ~bus.hw THEN AirNoLoop(a, None, Some("OSError"))
    ELSE LET env == ChooseEnv(bus.aht21, bus.aht10)
             loop == ReadEns160WithRetry(bus.ens, READ_ONCE_TIMEOUT_MS,
                                         READ_ONCE_STEP_MS, bus.io_ms)
             conf == ReadOnceConfidence(a, bus, env, loop, source, warmup_done)
             r == MkReading(NowUnixSeconds(clock, up + loop.elapsed), env, loop, source,
                            conf, bus.aht21, bus.aht10)
         IN AirResult(ReadOnceKeep(a, r), Some(r), None, loop)

\* AirSensor.begin_sampling(warmup_seconds, source) at ticks now
BeginSampling(a, warmup_seconds, source, now) ==
    [a EXCEPT !.warmup_until = Some(TicksAdd(now, Max2(0, warmup_seconds) * 1000)),
              !.warmup_source = Some(source)]

\* an is_ready that does not look at the warm-up deadline
IsReadyAlways(a, now) == TRUE

\* AirSensor.is_ready() at ticks now
IsReady(a, now) ==
    IF IsNone(a.warmup_until) THEN TRUE
    ELSE TicksDiff(now, Get(a.warmup_until)) >= 0

\* the warm-up state that finish_sampling clears before it reads
ClearWarmup(a) == [a EXCEPT !.warmup_until = None, !.warmup_source = None]

\* AirSensor.finish_sampling(log=False) at ticks now, up ms after boot
FinishSampling(a, bus, now, clock, up) ==
    IF ~IsReady(a, now) THEN AirNoLoop(a, None, Some("RuntimeError"))
    ELSE ReadOnce(ClearWarmup(a), bus,
                  IF IsNone(a.warmup_source) THEN "button" ELSE Get(a.warmup_source),
                  TRUE, clock, up)

\* read_quick: the helper's score, or 90 / 0 when it cannot be imported
ReadQuickConfidence(a, bus, loop, source) ==
    IF bus.conf # "ok" THEN (IF loop.ready THEN 90 ELSE 0)
    ELSE CalculateCo2Confidence(loop.ready, TRUE, TRUE, TRUE, loop.sample.eco2_ppm,
                                IF IsNone(a.last) THEN None ELSE Some(Get(a.last).eco2_ppm),
                                Some(loop.sample.aqi),
                                IF IsNone(a.last) THEN None ELSE Some(Get(a.last).aqi),
                                source)

\* read_quick's ending: a ready reading is kept and returned; otherwise
\* "return self._last or r"
ReadQuickReturn(a, r, loop) ==
    IF r.ready THEN AirResult([a EXCEPT !.last = Some(r)], Some(r), None, loop)
    ELSE AirResult(a, IF IsNone(a.last) THEN Some(r) ELSE a.last, None, loop)

\* AirSensor.read_quick(source): any exception returns self._last
ReadQuick(a, bus, source, clock, up) ==
    IF ~bus.hw THEN AirNoLoop(a, a.last, None)
    ELSE LET env == ChooseEnv(bus.aht21, bus.aht10)
             loop == ReadEns160WithRetry(bus.ens, QUICK_TIMEOUT_MS, QUICK_STEP_MS, bus.io_ms)
             conf == Some(ReadQuickConfidence(a, bus, loop, source))
             r == MkReading(NowUnixSeconds(clock, up + loop.elapsed), env, loop, source,
                            conf, bus.aht21, bus.aht10)
         IN ReadQuickReturn(a, r, loop)

-----------------------------------------------------------------------------
(* TelemetryScheduler: configuration, values, gate *)

\* cfg.get("telemetry_post_every_s", 120) or 120
DEFAULT_INTERVAL_S == 120

\* if interval_s < 10: interval_s = 10
MIN_INTERVAL_S == 10

\* TelemetryScheduler.__init__: first send 3000 ms after creation
FIRST_SEND_MS == 3000

\* a configuration dict: present is its truth value, the two keys are options
MkCfg(present, enabled, every) ==
    [present |-> present, telemetry_enabled |-> enabled, telemetry_post_every_s |-> every]

\* an enabled check that does not look at the telemetry_enabled key
CfgEnabledIgnoringFlag(cfg) == cfg.present

\* "not cfg or not cfg.get("telemetry_enabled", True)" is false
CfgEnabled(cfg) ==
    /\ cfg.present
    /\ IsNone(cfg.telemetry_enabled) \/ Get(cfg.telemetry_enabled)

\* interval_s = int(cfg.get("telemetry_post_every_s", 120) or 120), at least 10
IntervalS(cfg) ==
    LET v == cfg.telemetry_post_every_s
        raw == IF IsNone(v) THEN DEFAULT_INTERVAL_S
               ELSE IF Get(v) = 0 THEN DEFAULT_INTERVAL_S
               ELSE Get(v)
    IN IF raw < MIN_INTERVAL_S THEN MIN_INTERVAL_S ELSE raw

\* TelemetryState.scheduler before it is created
SchedNone ==
    [made |-> FALSE, next_send_ms |-> 0, last_reading |-> None, client |-> FALSE]

\* TelemetryScheduler(...) created at ticks now
SchedNew(now) ==
    [made |-> TRUE, next_send_ms |-> TicksAdd(now, FIRST_SEND_MS),
     last_reading |-> None, client |-> FALSE]

\* a warm-up check that takes a set deadline for a reached one
SamplingInProgressPastDeadline(a, now) == IsNone(a.warmup_until) /\ ~IsReady(a, now)

\* TelemetryScheduler._sampling_in_progress at ticks now: the warm-up deadline
\* is set and not reached, or is_ready() is false
SamplingInProgress(a, now) ==
    \/ /\ ~IsNone(a.warmup_until)
       /\ TicksDiff(now, Get(a.warmup_until)) < 0
    \/ ~IsReady(a, now)

\* TelemetryScheduler._build_values for an AirReading (or None) and the RTC
\* temperature: a key is present when its source is not None; an empty map
\* gets note = "no_reading"
BuildValues(reading, rtc_temp_c) ==
    IF IsNone(reading)
    THEN MkValues(None, None, None, None, None, None, None, rtc_temp_c,
                  IF IsNone(rtc_temp_c) THEN Some("no_reading") ELSE None)
    ELSE MkValues(Some(Get(reading).eco2_ppm), Some(Get(reading).tvoc_ppb),
                  Some(Get(reading).temp_c), Some(Get(reading).humidity),
                  Some(Get(reading).aqi), Some(Get(reading).ready),
                  Get(reading).confidence, rtc_temp_c, None)

\* a range check that leaves the two limits out
InRangeExclusive(o, lo, hi) == ~IsNone(o) /\ lo < Get(o) /\ Get(o) < hi

\* a key holds a number within lo..hi
InRange(o, lo, hi) == ~IsNone(o) /\ lo <= Get(o) /\ Get(o) <= hi

\* a gate that does not look at the ready flag
ValuesHasRealDataIgnoringReady(values) ==
    IF values.note = Some("no_reading") THEN FALSE
    ELSE IF ~IsNone(values.eco2_ppm) /\ Get(values.eco2_ppm) > 0 THEN TRUE
    ELSE IF ~IsNone(values.tvoc_ppb) /\ Get(values.tvoc_ppb) > 0 THEN TRUE
    ELSE IF InRange(values.temp_c, -20, 80) THEN TRUE
    ELSE IF InRange(values.rh, 0, 100) THEN TRUE
    ELSE FALSE

\* TelemetryScheduler._values_has_real_data
ValuesHasRealData(values) ==
    IF values.note = Some("no_reading") THEN FALSE
    ELSE IF values.ready = Some(FALSE) THEN FALSE
    ELSE IF ~IsNone(values.eco2_ppm) /\ Get(values.eco2_ppm) > 0 THEN TRUE
    ELSE IF ~IsNone(values.tvoc_ppb) /\ Get(values.tvoc_ppb) > 0 THEN TRUE
    ELSE IF InRange(values.temp_c, -20, 80) THEN TRUE
    ELSE IF InRange(values.rh, 0, 100) THEN TRUE
    ELSE FALSE

\* a write_last_sent that records every attempt as a success
WriteLastSentAlwaysOk(file, ts, ok, fs) ==
    IF fs = "ok" THEN Some([ts |-> ts, ok |-> TRUE]) ELSE file

\* TelemetryScheduler.write_last_sent(ts, ok): the file after the call; a
\* failing write is swallowed and leaves the file as it was
WriteLastSent(file, ts, ok, fs) ==
    IF fs = "ok" THEN Some([ts |-> ts, ok |-> ok]) ELSE file

-----------------------------------------------------------------------------
(* TelemetryScheduler.tick and TelemetryState.tick *)

\* the inputs of one tick: the configuration handed in and what each
\* collaborator does when the tick consults it
MkTickIn(cfg, sched_import, overflow, wifi, bus, clock, rtc, client_import, net, fs) ==
    [cfg |-> cfg, sched_import |-> sched_import, overflow |-> overflow, wifi |-> wifi,
     bus |-> bus, clock |-> clock, rtc |-> rtc, client_import |-> client_import,
     net |-> net, fs |-> fs]

\* the state a tick works on
MkTickState(sched, a, q, err, sent, env) ==
    [sched |-> sched, air |-> a, queue |-> q, last_error |-> err, last_sent |-> sent,
     env |-> env]

\* the result of a tick that has done nothing yet:
\*   out        where the tick ended
\*   due        it passed the due check, with interval_s
\*   values, payload   what it built
\*   posts, drain, sleeps, ret, enqueues   what client.send did
\*   wrote      the arguments of its write_last_sent call
\*   raised     the exception that left TelemetryScheduler.tick
\*   propagated the exception that left TelemetryState.tick
\*   reads, read_ms    sensor bus reads and the time they took (ms)
\*   elapsed    time spent in the tick (ms)
\*   read       what read_quick handed back: a Reading, or none
\*   recorded_at       what _now_unix_seconds returned
TickBase(st) ==
    [sched |-> st.sched, air |-> st.air, queue |-> st.queue,
     last_error |-> st.last_error, last_sent |-> st.last_sent,
     out |-> "none", due |-> FALSE, interval_s |-> 0, values |-> None,
     payload |-> None, posts |-> <<>>, drain |-> <<>>, sleeps |-> <<>>,
     ret |-> None, enqueues |-> 0, wrote |-> None, raised |-> None,
     propagated |-> None, reads |-> 0, read_ms |-> 0, elapsed |-> 0,
     read |-> None, recorded_at |-> None]

\* seconds slept in a list of backoff sleeps
RECURSIVE SumSeq(_)
SumSeq(s) == IF s = <<>> THEN 0 ELSE Head(s) + SumSeq(Tail(s))

\* tick, lines 407-413: (ok, msg) after client.send returned s, or after
\* "except Exception as e" caught what it raised
SendOutcome(s) ==
    IF IsNone(s.raised) THEN [ok |-> s.ok, msg |-> s.msg]
    ELSE [ok |-> FALSE, msg |-> "EXC " \o Get(s.raised)]

\* tick, lines 405-418: after client.send ended as s
TickSent(r, payload, s, fs) ==
    [r EXCEPT !.sched.client = TRUE,
              !.queue = s.queue,
              !.last_error = s.last_error,
              !.posts = s.posts, !.drain = s.drain, !.sleeps = s.sleeps,
              !.ret = Some(SendOutcome(s)),
              !.enqueues = Len(s.enqueues),
              !.wrote = Some([ts |-> payload.recorded_at, ok |-> SendOutcome(s).ok]),
              !.last_sent = WriteLastSent(r.last_sent, payload.recorded_at,
                                          SendOutcome(s).ok, fs),
              !.elapsed = r.elapsed + 1000 * SumSeq(s.sleeps),
              !.payload = Some(payload),
              !.out = IF SendOutcome(s).ok THEN "sent" ELSE "queued"]

\* tick, lines 399-418: _ensure_client (its lazy import is not guarded), then
\* client.send(payload) with the default retries
TickSend(r, payload, in, env) ==
    IF ~r.sched.client /\ in.client_import = "raises"
    THEN [r EXCEPT !.payload = Some(payload), !.out = "client_error",
                   !.raised = Some("ImportError")]
    ELSE TickSent(r, payload,
                  Send(r.queue, payload, Some(SEND_RETRIES), in.net, env), in.fs)

\* a tick that does not look at the clock before it sends
TickGateAnyClock(r, values, recorded_at, in, env) ==
    TickSend(r, MkPayload(recorded_at, values), in, env)

\* tick, lines 380-392: the clock check and the real-data gate
TickGate(r, values, recorded_at, in, env) ==
    IF recorded_at < EPOCH_MIN THEN [r EXCEPT !.out = "not_epoch"]
    ELSE IF ~ValuesHasRealData(values)
    THEN [r EXCEPT !.wrote = Some([ts |-> recorded_at, ok |-> FALSE]),
                   !.last_sent = WriteLastSent(r.last_sent, recorded_at, FALSE, in.fs),
                   !.out = "gate_reject"]
    ELSE TickSend(r, MkPayload(recorded_at, values), in, env)

\* tick, lines 357-378: after read_quick returned q, a reading replaces
\* _last_reading, None keeps the earlier one
TickValues(r, q, in, up, env) ==
    LET reading == IF IsNone(q.ret) THEN r.sched.last_reading ELSE q.ret
        values == BuildValues(reading, in.rtc)
    IN TickGate([r EXCEPT !.air = q.air, !.sched.last_reading = reading,
                          !.reads = q.reads, !.read_ms = q.elapsed,
                          !.elapsed = q.elapsed,
                          !.read = Some(q.ret),
                          !.recorded_at = Some(NowUnixSeconds(in.clock, up + q.elapsed)),
                          !.values = Some(values)],
                values, NowUnixSeconds(in.clock, up + q.elapsed), in, env)

\* a connectivity check that takes a raising is_connected for a link
WifiCheckIgnoresError(wifi) == IF wifi = "down" THEN "no_wifi" ELSE "ok"

\* tick, lines 339-349: is_connected() false, or raising, ends the tick
WifiCheck(wifi) ==
    IF wifi = "down" THEN "no_wifi"
    ELSE IF wifi = "raises" THEN "wifi_error"
    ELSE "ok"

\* tick, lines 339-360: connectivity, warm-up, read_quick
TickDue(r, in, up, now, env) ==
    IF WifiCheck(in.wifi) # "ok" THEN [r EXCEPT !.out = WifiCheck(in.wifi)]
    ELSE IF SamplingInProgress(r.air, now) THEN [r EXCEPT !.out = "sampling"]
    ELSE TickValues(r, ReadQuick(r.air, in.bus, "telemetry", in.clock, up), in, up, env)

\* TelemetryScheduler.tick(cfg, rtc_dict), called up ms after boot
SchedulerTick(st, in, up, boot) ==
    IF ~CfgEnabled(in.cfg) THEN [TickBase(st) EXCEPT !.out = "disabled"]
    ELSE IF TicksDiff(TicksMs(boot, up), st.sched.next_send_ms) < 0
    THEN [TickBase(st) EXCEPT !.out = "not_due"]
    ELSE IF ~TicksAddFits(IntervalS(in.cfg) * 1000) /\ in.overflow = "raises"
    THEN [TickBase(st) EXCEPT !.out = "overflow", !.due = TRUE,
                              !.interval_s = IntervalS(in.cfg),
                              !.raised = Some("OverflowError")]
    ELSE TickDue([TickBase(st) EXCEPT
                     !.sched.next_send_ms = TicksAdd(TicksMs(boot, up), IntervalS(in.cfg) * 1000),
                     !.due = TRUE, !.interval_s = IntervalS(in.cfg)],
                 in, up, TicksMs(boot, up), st.env)

\* a tick that handles MemoryError only
StateTickCatchMemoryError(raised) ==
    IF raised = Some("MemoryError") THEN None ELSE raised

\* TelemetryState.tick: "except MemoryError" and "except Exception: pass"
\* around scheduler.tick: what still leaves the method
StateTickCatch(raised) == None

\* TelemetryState._ensure_scheduler at ticks now
EnsureScheduler(st, now) ==
    IF st.sched.made THEN st ELSE [st EXCEPT !.sched = SchedNew(now)]

\* TelemetryState.tick(cfg, rtc_dict), called up ms after boot
StateTick(st, in, up, boot) ==
    IF ~CfgEnabled(in.cfg) THEN [TickBase(st) EXCEPT !.out = "disabled"]
    ELSE IF ~st.sched.made /\ in.sched_import = "fails"
    THEN [TickBase(st) EXCEPT !.out = "no_scheduler"]
    ELSE LET r == SchedulerTick(EnsureScheduler(st, TicksMs(boot, up)), in, up, boot)
         IN [r EXCEPT !.propagated = StateTickCatch(r.raised)]

-----------------------------------------------------------------------------
(* The record of the last operation *)

NoCall ==
    [op |-> "none", payload |-> None, arg |-> None, before |-> <<>>,
     posts |-> <<>>, drain |-> <<>>, sleeps |-> <<>>, ret |-> None]

\* some POST of the list succeeded
AnyOk(posts) == \E i \in 1..Len(posts) : posts[i].ok

\* values of an int argument: not convertible, below, inside and above the clamps
RetriesArgs == {None, Some(-1), Some(0), Some(1), Some(2), Some(3), Some(5)}

FlushArgs == {None, Some(-1), Some(0), Some(1), Some(2), Some(SEND_FLUSH_MAX)}

\* send(payload, retries) under the network script net
DoSend(payload, retriesArg, net) ==
    \E s \in {Send(queue, payload, retriesArg, net, client_env)} :
        /\ queue' = s.queue
        /\ last_error' = s.last_error
        /\ call' = [op |-> "send", payload |-> Some(payload), arg |-> retriesArg,
                    before |-> queue, posts |-> s.posts, drain |-> s.drain,
                    sleeps |-> s.sleeps,
                    ret |-> IF IsNone(s.raised) THEN Some([ok |-> s.ok, msg |-> s.msg])
                            ELSE None,
                    raised |-> s.raised]
        /\ enq_count' = enq_count + Len(s.enqueues)
        /\ drain_ok' = (drain_ok \/ AnyOk(s.drain))
        /\ UNCHANGED <<client_env, pipeVars>>

\* flush_queue(max_to_try) under the network script net
DoFlush(maxArg, net) ==
    \E f \in {FlushQueue(queue, maxArg, net, 0, client_env, last_error)} :
        /\ queue' = f.queue
        /\ last_error' = f.last_error
        /\ call' = [op |-> "flush_queue", payload |-> None, arg |-> maxArg,
                    before |-> queue, posts |-> <<>>, drain |-> f.posts,
                    sleeps |-> <<>>, ret |-> None, raised |-> f.raised]
        /\ drain_ok' = (drain_ok \/ AnyOk(f.posts))
        /\ UNCHANGED <<client_env, enq_count, pipeVars>>

\* _enqueue(payload)
DoEnqueue(payload) ==
    /\ queue' = Enqueue(queue, payload, MAX_ITEMS, client_env)
    /\ call' = [op |-> "_enqueue", payload |-> Some(payload), arg |-> None,
                before |-> queue, posts |-> <<>>, drain |-> <<>>,
                sleeps |-> <<>>, ret |-> None]
    /\ enq_count' = enq_count + 1
    /\ UNCHANGED <<last_error, client_env, drain_ok, pipeVars>>

-----------------------------------------------------------------------------
(* Client specification: one send, flush_queue or _enqueue call on every     *)
(* short queue, for every argument and network script                       *)

\* sensor, scheduler and clock as a boot leaves them
PipeFresh ==
    /\ air = AirNew
    /\ scheduler = SchedNone
    /\ last_sent = None
    /\ config = MkCfg(TRUE, None, None)
    /\ uptime = 0
    /\ boot_ticks = 0
    /\ last_due = None

ClientInit ==
    /\ PipeFresh
    /\ queue \in SeqsUpTo(ClientPayloads, MaxQLen)
    /\ last_error = ""
    /\ client_env \in {"ok", "no_urequests", "missing_device_auth"}
    /\ call = NoCall
    /\ enq_count = 0
    /\ drain_ok = FALSE

ClientSend ==
    /\ call.op = "none"
    /\ \E p \in ClientPayloads, a \in RetriesArgs, net \in NetScripts(SEND_RETRIES, MaxQLen + 1) :
          DoSend(p, a, net)

ClientFlush ==
    /\ call.op = "none"
    /\ \E a \in FlushArgs, net \in NetScripts(0, MaxQLen + 1) : DoFlush(a, net)

ClientEnqueue ==
    /\ call.op = "none"
    /\ \E p \in ClientPayloads : DoEnqueue(p)

ClientNext == ClientSend \/ ClientFlush \/ ClientEnqueue

SpecClient == ClientInit /\ [][ClientNext]_vars

-----------------------------------------------------------------------------
(* Capacity specification: from an empty queue, a stream of payloads is      *)
(* enqueued past the capacity, with drains in between                       *)

\* the n-th payload of the stream: recorded 10 s after the one before, except
\* that every CapDupEvery-th one repeats its predecessor by value
CapPayload(n) == MkPayload(EpochBase + 10 * (n - (n \div CapDupEvery)), GoodValues)

CapInit ==
    /\ PipeFresh
    /\ queue = <<>>
    /\ last_error = ""
    /\ client_env = "ok"
    /\ call = NoCall
    /\ enq_count = 0
    /\ drain_ok = FALSE

CapEnqueue ==
    /\ enq_count < MaxCapEnq
    /\ DoEnqueue(CapPayload(enq_count + 1))

\* a drain whose first POST fails, one that sends one item, one that sends them all
CapScripts == {<<FailScript[1]>>, <<R200, FailScript[1]>>, <<R200>>}

CapFlush ==
    /\ queue # <<>>
    /\ \E net \in CapScripts : DoFlush(Some(SEND_FLUSH_MAX), net)

CapNext == CapEnqueue \/ CapFlush

SpecCap == CapInit /\ [][CapNext]_vars

-----------------------------------------------------------------------------
(* Sensor bus inputs *)

SampleGood == MkSample(2, 10, 650)

SampleHigh == MkSample(3, 120, 900)

\* the largest values the validity heuristic accepts
SampleEdge == MkSample(5, TVOC_MAX, ECO2_MAX)

SampleZero == MkSample(0, 0, 0)

SampleAqi6 == MkSample(6, 10, 650)

SampleEco0 == MkSample(2, 10, 0)

SampleEcoOver == MkSample(2, 10, ECO2_MAX + 1)

SampleTvocOver == MkSample(2, TVOC_MAX + 1, 650)

\* an ENS160 that returns the same sample at every read
Always(sample) == <<Some(sample)>>

\* an ENS160 whose reads all raise
AlwaysRaising == <<None>>

\* an ENS160 that is valid only at the LateReads-th read
LateValid == [i \in 1..(LateReads - 1) |-> Some(SampleEcoOver)] \o <<Some(SampleGood)>>

\* what AHT21 / AHT10 read: a room, and values outside the plausible ranges
EnvRoom == [t |-> 21, rh |-> 40]

EnvOther == [t |-> 23, rh |-> 45]

EnvOff == [t |-> 85, rh |-> 101]

MkBus(hw, aht21, aht10, ens, io_ms, conf) ==
    [hw |-> hw, aht21 |-> aht21, aht10 |-> aht10, ens |-> ens, io_ms |-> io_ms,
     conf |-> conf]

\* a bus whose setup fails
BusDead == MkBus(FALSE, None, None, <<None>>, 0, "ok")

\* the buses of the sensor specification: ready at once (in a room, without
\* the confidence helper, on AHT10 only, at the edge of validity and of
\* plausibility); never ready (with and without the helper, with and without
\* AHT); raising; a sample and then exceptions; exceptions and then samples;
\* ready at the third read; ready late; and a bus that cannot be set up
AirBuses ==
    {MkBus(TRUE, Some(EnvRoom), None, Always(SampleGood), 0, "ok"),
     MkBus(TRUE, Some(EnvRoom), None, Always(SampleGood), 0, "missing"),
     MkBus(TRUE, None, Some(EnvOther), Always(SampleHigh), 0, "ok"),
     MkBus(TRUE, Some(EnvOff), Some(EnvOther), Always(SampleEdge), 0, "ok"),
     MkBus(TRUE, Some(EnvRoom), None, Always(SampleZero), 0, "ok"),
     MkBus(TRUE, None, None, Always(SampleZero), 0, "missing"),
     MkBus(TRUE, None, None, AlwaysRaising, 0, "ok"),
     MkBus(TRUE, Some(EnvRoom), None, <<Some(SampleZero), None>>, 0, "ok"),
     MkBus(TRUE, Some(EnvRoom), None, <<None, Some(SampleEco0)>>, 0, "ok"),
     MkBus(TRUE, Some(EnvRoom), None,
           <<Some(SampleAqi6), Some(SampleTvocOver), Some(SampleGood)>>, 0, "ok"),
     MkBus(TRUE, Some(EnvRoom), None, LateValid, 0, "ok"),
     BusDead}

\* the device clock of an acquisition: synced, or failing on the dead bus only
AirClocks(bus) == IF bus = BusDead THEN {"epoch", "fails"} ELSE {"epoch"}

-----------------------------------------------------------------------------
(* Sensor specification: begin_sampling, finish_sampling and read_quick in   *)
(* any order on one AirSensor, over the buses above; an acquisition is       *)
(* followed by the pause of the screen that shows it                        *)

AirCall(name, before, r, bus) ==
    [op |-> name, before |-> before, ret |-> r.ret, raised |-> r.raised,
     ran |-> r.ran, reads |-> r.reads, elapsed |-> r.elapsed, timed_out |-> r.timed_out,
     bus |-> bus]

AirInit ==
    /\ queue = <<>>
    /\ last_error = ""
    /\ client_env = "ok"
    /\ air = AirNew
    /\ scheduler = SchedNone
    /\ last_sent = None
    /\ config = MkCfg(TRUE, None, None)
    /\ uptime = 0
    /\ boot_ticks \in {0, TICKS_PERIOD - WrapSoonMs}
    /\ last_due = None
    /\ call = NoCall
    /\ enq_count = 0
    /\ drain_ok = FALSE

airFrame == <<queue, last_error, client_env, scheduler, last_sent, config, boot_ticks,
              last_due, enq_count, drain_ok>>

AirBeginSampling ==
    /\ \E w \in {0, WarmupS}, src \in {"boot", "button"} :
          /\ air' = BeginSampling(air, w, src, TicksMs(boot_ticks, uptime))
          /\ call' = [NoCall EXCEPT !.op = "begin_sampling"]
    /\ UNCHANGED <<uptime, airFrame>>

AirFinishSampling ==
    /\ uptime <= MaxAirUptime
    /\ \E bus \in AirBuses : \E clock \in AirClocks(bus) :
       \E r \in {FinishSampling(air, bus, TicksMs(boot_ticks, uptime), clock, uptime)} :
          /\ air' = r.air
          /\ uptime' = uptime + r.elapsed + SUMMARY_REFRESH_MS
          /\ call' = AirCall("finish_sampling", air, r, bus)
    /\ UNCHANGED airFrame

AirReadQuick ==
    /\ uptime <= MaxAirUptime
    /\ \E bus \in AirBuses : \E clock \in AirClocks(bus) :
       \E r \in {ReadQuick(air, bus, "summary", clock, uptime)} :
          /\ air' = r.air
          /\ uptime' = uptime + r.elapsed + SUMMARY_REFRESH_MS
          /\ call' = AirCall("read_quick", air, r, bus)
    /\ UNCHANGED airFrame

AirElapse ==
    /\ uptime + WarmupS * 1000 <= MaxAirUptime
    /\ uptime' = uptime + WarmupS * 1000
    /\ call' = [NoCall EXCEPT !.op = "sleep"]
    /\ UNCHANGED <<air, airFrame>>

AirNext == AirBeginSampling \/ AirFinishSampling \/ AirReadQuick \/ AirElapse

SpecAir == AirInit /\ [][AirNext]_vars

-----------------------------------------------------------------------------
(* Pipeline specification: the idle loop calls telemetry.tick(cfg) again and *)
(* again while time passes; a boot draws the configuration, and every tick  *)
(* draws what the collaborators do, from the sets below                     *)

CfgOff == MkCfg(TRUE, Some(FALSE), None)

\* no configuration; telemetry off; telemetry on with the interval key
\* missing, 0, below the floor, at the floor, and LongIntervalS
PipeCfgs ==
    {MkCfg(FALSE, None, None), CfgOff,
     MkCfg(TRUE, None, None), MkCfg(TRUE, Some(TRUE), Some(0)),
     MkCfg(TRUE, None, Some(5)), MkCfg(TRUE, Some(TRUE), Some(MIN_INTERVAL_S)),
     MkCfg(TRUE, None, Some(LongIntervalS))}

\* a ready sensor in a room; a sensor that is not ready, with no AHT reading;
\* a sensor whose samples are ready, with the confidence helper missing
BusReady == MkBus(TRUE, Some(EnvRoom), None, <<Some(SampleGood)>>, 0, "ok")

BusNotReady == MkBus(TRUE, None, None, <<Some(SampleZero)>>, 0, "ok")

\* what a tick finds when it reads: the bus, the device clock and the RTC
\* temperature
MkSensors(bus, clock, rtc) == [bus |-> bus, clock |-> clock, rtc |-> rtc]

PipeSensors ==
    {MkSensors(BusReady, "epoch", None), MkSensors(BusReady, "small", None),
     MkSensors(BusReady, "fails", Some(31)),
     MkSensors(BusNotReady, "epoch", None), MkSensors(BusNotReady, "epoch", Some(31)),
     MkSensors(BusDead, "epoch", None), MkSensors(BusDead, "epoch", Some(31))}

\* the queue a boot finds: empty, or two payloads of an earlier run that are
\* equal by value
PipeQueues == {<<>>, <<PayloadA, PayloadA>>}

\* the network of a tick: all POSTs succeed; the first succeeds and the next
\* fails; the second succeeds, and all after it; the third succeeds, one
\* more, and then none; none succeeds
PipeNets ==
    {<<R200>>, <<R200, FailScript[1]>>, <<FailScript[1], R200>>,
     <<FailScript[1], FailScript[2], R200, R200, FailScript[4]>>,
     SubSeq(FailScript, 1, SEND_RETRIES)}

\* the last_sent file of a tick: writable, or not; a write that fails is drawn
\* with the networks where every POST has the same outcome
FsFor(net) ==
    IF net \in {<<R200>>, SubSeq(FailScript, 1, SEND_RETRIES)} THEN {"ok", "fails"}
    ELSE {"ok"}

PipeState == MkTickState(scheduler, air, queue, last_error, last_sent, client_env)

\* where the tick ends under inputs in
Probe(in) == StateTick(PipeState, in, uptime, boot_ticks).out

\* the ticks that end before the connectivity check, before the sensor read,
\* and before _ensure_client
EarlyOuts == {"disabled", "no_scheduler", "not_due"}

SkipOuts == EarlyOuts \cup {"overflow", "no_wifi", "wifi_error", "sampling"}

NoSendOuts == SkipOuts \cup {"not_epoch", "gate_reject"}

\* an input is drawn only in a tick that consults it
InputsFor(out, stops, S, default) == IF out \in stops THEN {default} ELSE S

OverflowsFor(cfg) ==
    IF TicksAddFits(IntervalS(cfg) * 1000) THEN {"raises"} ELSE {"raises", "wraps"}

PipeCall(in, r) ==
    [op |-> "tick", at |-> uptime, before |-> queue, prev_due |-> last_due,
     prev_sent |-> last_sent, fs |-> in.fs, out |-> r.out, due |-> r.due,
     interval_s |-> r.interval_s, values |-> r.values, payload |-> r.payload,
     posts |-> r.posts, drain |-> r.drain, sleeps |-> r.sleeps, ret |-> r.ret,
     enqueues |-> r.enqueues, wrote |-> r.wrote, raised |-> r.raised,
     propagated |-> r.propagated, reads |-> r.reads, read_ms |-> r.read_ms,
     elapsed |-> r.elapsed, read |-> r.read, recorded_at |-> r.recorded_at,
     wifi |-> in.wifi, bus |-> in.bus, prev_sched |-> scheduler, prev_air |-> air]

\* the due ticks since boot
DueTicks == IF IsNone(last_due) THEN 0 ELSE Get(last_due).n

\* telemetry.tick(cfg, rtc_dict=rtc) under inputs in
DoTick(in) ==
    \E r \in {StateTick(PipeState, in, uptime, boot_ticks)} :
        /\ scheduler' = r.sched
        /\ air' = r.air
        /\ queue' = r.queue
        /\ last_error' = r.last_error
        /\ last_sent' = r.last_sent
        /\ uptime' = uptime + r.elapsed
        /\ last_due' = IF r.due
                       THEN Some([at |-> uptime, interval_s |-> r.interval_s,
                                  n |-> DueTicks + 1])
                       ELSE last_due
        /\ call' = PipeCall(in, r)
        /\ enq_count' = enq_count + r.enqueues
        /\ drain_ok' = (drain_ok \/ AnyOk(r.drain))
        /\ UNCHANGED <<client_env, config, boot_ticks>>

Init ==
    /\ queue \in PipeQueues
    /\ last_error = ""
    /\ client_env = "ok"
    /\ config \in PipeCfgs
    /\ boot_ticks \in {0, TICKS_PERIOD - WrapSoonMs}
    /\ air \in {AirNew, BeginSampling(AirNew, WarmupS, "boot", boot_ticks)}
    /\ scheduler = SchedNone
    /\ last_sent = None
    /\ uptime = 0
    /\ last_due = None
    /\ call = NoCall
    /\ enq_count = 0
    /\ drain_ok = FALSE

Tick ==
    /\ uptime <= MaxUptime
    /\ DueTicks < MaxDueTicks
    /\ \E si \in (IF scheduler.made THEN {"ok"} ELSE {"ok", "fails"}) :
       \E pa \in {Probe(MkTickIn(config, si, "wraps", "connected", BusReady, "epoch", None,
                                 "ok", <<R200>>, "ok"))} :
       \E ov \in InputsFor(pa, EarlyOuts, OverflowsFor(config), "wraps"),
          wifi \in InputsFor(pa, EarlyOuts, {"connected", "down", "raises"}, "connected") :
       \E pb \in {Probe(MkTickIn(config, si, ov, wifi, BusReady, "epoch", None,
                                 "ok", <<R200>>, "ok"))} :
       \E sen \in InputsFor(pb, SkipOuts, PipeSensors, MkSensors(BusReady, "epoch", None)) :
       \E pc \in {Probe(MkTickIn(config, si, ov, wifi, sen.bus, sen.clock, sen.rtc,
                                 "ok", <<R200>>, "ok"))} :
       \E imp \in InputsFor(IF scheduler.client THEN "none" ELSE pc,
                            NoSendOuts \cup {"none"}, {"ok", "raises"}, "ok"),
          net \in InputsFor(pc, NoSendOuts, PipeNets, <<R200>>) :
       \E fs \in InputsFor(pc, SkipOuts \cup {"not_epoch"}, FsFor(net), "ok") :
          DoTick(MkTickIn(config, si, ov, wifi, sen.bus, sen.clock, sen.rtc, imp, net, fs))

\* the pauses between ticks: the delay of the first send, and the shortest
\* interval
ElapseSteps == {FIRST_SEND_MS, MIN_INTERVAL_S * 1000}

\* time.sleep_ms(25) of the idle loop, or a screen that keeps the loop waiting
Elapse ==
    /\ \E d \in ElapseSteps :
          /\ uptime + d <= MaxUptime
          /\ uptime' = uptime + d
    /\ call' = [NoCall EXCEPT !.op = "sleep"]
    /\ UNCHANGED <<queue, last_error, client_env, air, scheduler, last_sent, config,
                   boot_ticks, last_due, enq_count, drain_ok>>

Next == Tick \/ Elapse

Spec == Init /\ [][Next]_vars

-----------------------------------------------------------------------------
(* Claims: persistent queue and TelemetryClient *)

\* q is the last MAX_ITEMS payloads of the first n of the capacity
\* specification's stream, oldest first
IsCapRecent(q, n) ==
    /\ Len(q) = MAX_ITEMS
    /\ \A i \in 1..MAX_ITEMS : q[i] = CapPayload(n - MAX_ITEMS + i)

\* C1: the persisted queue never holds more than 100 payloads, and once more
\* than 100 payloads were enqueued with no successful drain, the queue is
\* exactly the 100 most recently enqueued payloads in their original order.
C1_QueueCapacity ==
    /\ Len(queue) <= MAX_ITEMS
    /\ (enq_count > MAX_ITEMS /\ ~drain_ok) => IsCapRecent(queue, enq_count)

\* the capacity bound alone (the part of C1 that the code keeps)
C1_LengthBound == Len(queue) <= MAX_ITEMS

\* what flush_queue has to leave of queue q when its POSTs were posts: the
\* suffix from the failed item on, or past the attempted items if none failed
FlushSuffix(q, posts) ==
    IF posts # <<>> /\ ~posts[Len(posts)].ok
    THEN DropN(q, Len(posts) - 1)
    ELSE DropN(q, Len(posts))

\* C2: flush_queue stops at the first item whose POST fails and leaves the
\* suffix of the queue that starts at that item (or the suffix after the
\* attempted items): same items, same multiplicity, same order.
C2_FlushKeepsSuffix ==
    call.op = "flush_queue" =>
        /\ \A i \in 1..Len(call.drain) :
              /\ call.drain[i].item = call.before[i]
              /\ i < Len(call.drain) => call.drain[i].ok
        /\ queue = FlushSuffix(call.before, call.drain)

\* number of successful POSTs of payload p in a list of POST records
OkPostsOf(p, posts) ==
    Cardinality({i \in 1..Len(posts) : posts[i].ok /\ posts[i].item = p})

\* the items the capacity rule evicts when one payload is added to before
EvictedBy(before) == SubSeq(before, 1, Max2(0, Len(before) + 1 - MAX_ITEMS))

\* C3: a queued payload leaves the queue only after a POST of it succeeded,
\* or as one of the oldest items evicted by the capacity rule: per payload,
\* no more copies leave the queue than were sent or evicted in the call.
C3_AtLeastOnce ==
    call.op # "none" =>
        \A i \in 1..Len(call.before) :
            LET p == call.before[i]
            IN Count(p, call.before) - Count(p, queue)
                 <= OkPostsOf(p, call.drain)
                    + (IF call.op = "flush_queue" THEN 0
                       ELSE Count(p, EvictedBy(call.before)))

\* C9: for any retries argument send makes at least 1 and at most 3 POST
\* attempts of the fresh payload, and none after the first that succeeds.
C9_SendAttemptsBounded ==
    call.op = "send" =>
        /\ 1 <= Len(call.posts)
        /\ Len(call.posts) <= 3
        /\ \A i \in 1..Len(call.posts) :
              /\ call.posts[i].item = Get(call.payload)
              /\ i < Len(call.posts) => ~call.posts[i].ok

\* C9 witness: retries = 5 was clamped to 3 attempts, which all failed
C9_Witness ==
    /\ call.op = "send"
    /\ call.arg = Some(5)
    /\ Len(call.posts) = 3
    /\ ~call.posts[3].ok

-----------------------------------------------------------------------------
(* Claims: acquisition *)

\* the last acquisition ran the retry loop to its timeout
AcquisitionTimedOut ==
    /\ call.op \in {"finish_sampling", "read_quick"}
    /\ call.timed_out

\* a Reading that says it is not ready, and why
ExplicitNotReady(ret) ==
    /\ ~IsNone(ret)
    /\ ~Get(ret).ready
    /\ Get(ret).reason # ""

FinishTimedOutWithHistory ==
    /\ call.op = "finish_sampling"
    /\ call.timed_out
    /\ ~IsNone(call.before.last)
    /\ Get(call.ret).reason = "ens160 not ready"

-----------------------------------------------------------------------------
(* Claims: scheduler and pipeline *)

\* the device clock reading of a tick when it took recorded_at
TickNowUnix == EpochBase + ((call.at + call.read_ms) \div 1000)

\* the last_sent file holds what the tick wrote, if the file could be written
LastSentWritten(rec) ==
    /\ call.wrote = Some(rec)
    /\ call.fs = "ok" => last_sent = Some(rec)

\* C4: a due tick sets next_due = now + interval before any I/O, so two
\* consecutive ticks that pass the due check are at least interval seconds
\* (at least 10 s) apart, whatever the first one did.
C4_Cadence ==
    (call.op = "tick" /\ call.due) =>
        /\ scheduler.next_send_ms
              = TicksAdd(TicksMs(boot_ticks, call.at), call.interval_s * 1000)
        /\ call.interval_s >= MIN_INTERVAL_S
        /\ ~IsNone(call.prev_due) =>
              call.at - Get(call.prev_due).at >= Get(call.prev_due).interval_s * 1000

\* the cadence for intervals whose milliseconds fit ticks_add
CadenceWhenIntervalFits ==
    (call.op = "tick" /\ call.due /\ ~IsNone(call.prev_due)
       /\ TicksAddFits(Get(call.prev_due).interval_s * 1000)) =>
        call.at - Get(call.prev_due).at >= Get(call.prev_due).interval_s * 1000

\* a due tick followed a due tick sooner than the interval
CadenceBroken ==
    /\ call.op = "tick"
    /\ call.due
    /\ ~IsNone(call.prev_due)
    /\ call.at - Get(call.prev_due).at < MIN_INTERVAL_S * 1000

\* C5: when the real-data gate rejects the values of a due tick (a reading
\* that is not ready is rejected), the tick writes LastSentRecord{ts = now,
\* ok = false}, makes no POST and no drain, and leaves the queue unchanged.
C5_GateRejectRecorded ==
    call.op = "tick" =>
        /\ (~IsNone(call.values) /\ Get(call.values).ready = Some(FALSE)
              /\ call.out # "not_epoch") => call.out = "gate_reject"
        /\ call.out = "gate_reject" =>
              /\ LastSentWritten([ts |-> TickNowUnix, ok |-> FALSE])
              /\ call.posts = <<>>
              /\ call.drain = <<>>
              /\ IsNone(call.ret)
              /\ queue = call.before

\* C5 witness: a tick read a sensor that was not ready (eco2 0, tvoc 0) and
\* recorded the rejection
C5_Witness ==
    /\ call.op = "tick"
    /\ call.out = "gate_reject"
    /\ Get(call.values).ready = Some(FALSE)
    /\ Get(call.values).eco2_ppm = Some(0)
    /\ last_sent = Some([ts |-> TickNowUnix, ok |-> FALSE])
    /\ call.before # <<>>

\* every POST of the fresh payload failed
AllPostsFailed ==
    /\ call.posts # <<>>
    /\ \A i \in 1..Len(call.posts) : ~call.posts[i].ok

\* C7: when every POST attempt of send(payload) fails, the payload is
\* appended exactly once to the queue (length + 1 below capacity), send
\* returns (False, "queued: <status of the last failure>") and the tick
\* writes LastSentRecord{ok = false}.
C7_ExhaustedQueued ==
    (call.op = "tick" /\ AllPostsFailed) =>
        /\ call.ret = Some([ok |-> FALSE,
                            msg |-> "queued: " \o call.posts[Len(call.posts)].msg])
        /\ call.enqueues = 1
        /\ call.drain = <<>>
        /\ Len(call.before) < MAX_ITEMS => queue = Append(call.before, Get(call.payload))
        /\ LastSentWritten([ts |-> Get(call.payload).recorded_at, ok |-> FALSE])

\* C7 witness: three failed attempts, the last one a network error, and the
\* payload is the new last item of the queue
C7_Witness ==
    /\ call.op = "tick"
    /\ Len(call.posts) = SEND_RETRIES
    /\ AllPostsFailed
    /\ Get(call.ret).msg = "queued: EXC OSError(110)"
    /\ Len(queue) = Len(call.before) + 1
    /\ queue[Len(queue)] = Get(call.payload)
    /\ last_sent = Some([ts |-> Get(call.payload).recorded_at, ok |-> FALSE])

\* C8: when a POST attempt of send(payload) succeeds, send does not enqueue
\* the payload, runs one drain of at most 8 queued items and returns success;
\* the tick writes LastSentRecord{ok = true}, and a queue that was empty is
\* still empty.
C8_SuccessNotQueued ==
    (call.op = "tick" /\ AnyOk(call.posts)) =>
        /\ call.ret = Some([ok |-> TRUE, msg |-> "sent"])
        /\ call.posts[Len(call.posts)].ok
        /\ call.enqueues = 0
        /\ Len(queue) <= Len(call.before)
        /\ Len(call.drain) <= Min2(SEND_FLUSH_MAX, Len(call.before))
        /\ \A i \in 1..Len(call.drain) : call.drain[i].item = call.before[i]
        /\ LastSentWritten([ts |-> Get(call.payload).recorded_at, ok |-> TRUE])
        /\ call.before = <<>> => queue = <<>>

\* C8 witness: the happy path (connectivity, ready reading, empty queue,
\* HTTP 200)
C8_Witness ==
    /\ call.op = "tick"
    /\ call.out = "sent"
    /\ Len(call.posts) = 1
    /\ Get(call.values).ready = Some(TRUE)
    /\ call.before = <<>>
    /\ queue = <<>>
    /\ last_sent = Some([ts |-> TickNowUnix, ok |-> TRUE])

\* a successful send drained a queued payload
SentAndDrained ==
    /\ call.op = "tick"
    /\ call.out = "sent"
    /\ AnyOk(call.drain)

\* C10: TelemetryState.tick returns normally for every failure of a
\* collaborator: no exception leaves it towards the main loop.
C10_TickContained == call.op = "tick" => IsNone(call.propagated)

\* C10 witness: an exception left TelemetryScheduler.tick (the client could
\* not be imported) and TelemetryState.tick returned normally
C10_Witness ==
    /\ call.op = "tick"
    /\ call.raised = Some("ImportError")
    /\ IsNone(call.propagated)

\* the other failures a tick met and survived
TickSurvivedFailures ==
    /\ call.op = "tick"
    /\ call.out = "queued"
    /\ call.fs = "fails"
    /\ call.posts[1].msg = "HTTP 500"
    /\ call.posts[2].msg = "ENOMEM"

\* the tick passed the due check, ticks_add, the connectivity check and the
\* warm-up check
PastChecks ==
    /\ call.op = "tick"
    /\ call.due
    /\ call.raised # Some("OverflowError")
    /\ call.wifi = "connected"
    /\ ~SamplingInProgress(call.prev_air, TicksMs(boot_ticks, call.at))

\* the tick left the last_sent file as it found it
NoRecordWritten ==
    /\ IsNone(call.wrote)
    /\ last_sent = call.prev_sent

\* the record of a completed attempt: ok = false if the gate rejected,
\* otherwise the result of send
AttemptRecorded ==
    /\ IsNone(call.ret) <=> ~ValuesHasRealData(Get(call.values))
    /\ LastSentWritten([ts |-> Get(call.recorded_at),
                        ok |-> IF IsNone(call.ret) THEN FALSE ELSE Get(call.ret).ok])

ClockNotSetNoRecord ==
    /\ PastChecks
    /\ Get(call.recorded_at) < EPOCH_MIN
    /\ ValuesHasRealData(Get(call.values))
    /\ NoRecordWritten

\* the sensor read of the tick failed: the bus raised inside read_quick, or
\* read_quick handed back no reading
ReadFailed ==
    /\ PastChecks
    /\ ~call.bus.hw \/ Get(call.read) = None

\* the tick went on to build values and to the clock check and the gate
TickWentOn ==
    /\ ~IsNone(call.values)
    /\ ~IsNone(call.recorded_at)

ReadFailureContinues ==
    ReadFailed =>
        /\ TickWentOn
        /\ Get(call.read) = None =>
              /\ Get(call.values).ready # Some(TRUE)
              /\ IsNone(call.payload)

\* a tick whose sensor read failed posted the reading of an earlier tick
\* under a new recorded_at
StaleReadingSent ==
    /\ ReadFailed
    /\ call.out = "sent"
    /\ Get(call.values).ready = Some(TRUE)
    /\ Get(call.payload).recorded_at > Get(Get(call.read)).timestamp

-----------------------------------------------------------------------------
(* Claims: readings *)

\* the last acquisition handed back a Reading
AcquisitionReturned ==
    /\ call.op \in {"finish_sampling", "read_quick"}
    /\ ~IsNone(call.ret)

\* the ranges of an accepted reading
ReadyInRanges(r) ==
    /\ 1 <= r.aqi /\ r.aqi <= 5
    /\ 0 < r.eco2_ppm /\ r.eco2_ppm <= 60000
    /\ r.tvoc_ppb <= 65000

\* the raw sample of the last bus read of the acquisition, if it read one
LastRawSample == IF call.reads = 0 THEN None ELSE BusAt(call.bus.ens, call.reads)

\* the Reading was built from raw sample s
BuiltFrom(r, s) ==
    /\ r.aqi = s.aqi
    /\ r.tvoc_ppb = s.tvoc_ppb
    /\ r.eco2_ppm = s.eco2_ppm

\* C13: every Reading with ready = true that AirSensor returns or keeps as its
\* last accepted reading has 1 <= aqi <= 5, 0 < eco2_ppm <= 60000 and
\* tvoc_ppb <= 65000; a raw sample with eco2_ppm <= 0, aqi outside 1..5 or
\* tvoc_ppb > 65000 never yields a Reading built from it with ready = true.
C13_ReadyValid ==
    /\ ~IsNone(air.last) => Get(air.last).ready /\ ReadyInRanges(Get(air.last))
    /\ AcquisitionReturned =>
          /\ Get(call.ret).ready => ReadyInRanges(Get(call.ret))
          /\ (call.ret # call.before.last /\ ~IsNone(LastRawSample)
                /\ BuiltFrom(Get(call.ret), Get(LastRawSample))
                /\ ~ReadyInRanges(Get(LastRawSample)))
               => ~Get(call.ret).ready

\* C13 witness: a sample at the limits (aqi 5, tvoc 65000, eco2 60000) was
\* accepted and kept
C13_Witness ==
    /\ AcquisitionReturned
    /\ Get(call.ret).ready
    /\ Get(call.ret).aqi = 5
    /\ Get(call.ret).tvoc_ppb = TVOC_MAX
    /\ Get(call.ret).eco2_ppm = ECO2_MAX
    /\ air.last = call.ret

\* a Reading built from a sample outside the ranges came back not ready
InvalidSampleNotReady ==
    /\ AcquisitionReturned
    /\ ~IsNone(LastRawSample)
    /\ BuiltFrom(Get(call.ret), Get(LastRawSample))
    /\ ~ReadyInRanges(Get(LastRawSample))
    /\ ~Get(call.ret).ready

\* C14: for every Reading produced by AirSensor (finish_sampling or
\* read_quick, whether or not the confidence helper can be loaded or raises),
\* confidence is either absent (None) or an integer with 1 <= confidence <= 100.
C14_ConfidenceRange ==
    AcquisitionReturned =>
        \/ IsNone(Get(call.ret).confidence)
        \/ /\ 1 <= Get(Get(call.ret).confidence)
           /\ Get(Get(call.ret).confidence) <= 100

\* the part that holds: finish_sampling's confidence is None or in 1..100, and
\* read_quick's is in 1..100 or, without the helper, 90 when ready and 0 when not
ConfidenceRangeOrFallback ==
    AcquisitionReturned =>
        \/ IsNone(Get(call.ret).confidence)
        \/ /\ 1 <= Get(Get(call.ret).confidence)
           /\ Get(Get(call.ret).confidence) <= 100
        \/ /\ call.op = "read_quick"
           /\ call.bus.conf # "ok"
           /\ ~Get(call.ret).ready
           /\ Get(Get(call.ret).confidence) = 0

\* read_quick without the helper and without an accepted reading returned a
\* not-ready Reading whose confidence is 0
QuickConfidenceZero ==
    /\ call.op = "read_quick"
    /\ ~IsNone(call.ret)
    /\ ~Get(call.ret).ready
    /\ Get(call.ret).confidence = Some(0)

-----------------------------------------------------------------------------
(* Claims: ticks that skip *)

\* the last operation was a due tick whose ticks_add did not raise
DueTick ==
    /\ call.op = "tick"
    /\ call.due
    /\ call.raised # Some("OverflowError")

\* ticks at the time of the last tick
CallNow == TicksMs(boot_ticks, call.at)

\* the scheduler the last tick worked on: the one it found, or the one
\* TelemetryState created for it
SchedBefore == IF call.prev_sched.made THEN call.prev_sched ELSE SchedNew(CallNow)

\* the last tick made no POST and left the queue and its error text alone
NoNetworkCall ==
    /\ call.posts = <<>>
    /\ call.drain = <<>>
    /\ IsNone(call.ret)
    /\ call.enqueues = 0
    /\ queue = call.before

\* the last tick read no sensor bus and left the AirSensor alone
NoSensorRead ==
    /\ call.reads = 0
    /\ IsNone(call.read)
    /\ air = call.prev_air

NoWifiSkipped ==
    /\ DueTick
    /\ call.wifi = "down"
    /\ call.out = "no_wifi"

\* the AirSensor the last tick found was in its warm-up window: begin_sampling
\* had set a deadline and the tick came before it
InWarmup ==
    /\ ~IsNone(call.prev_air.warmup_until)
    /\ TicksDiff(CallNow, Get(call.prev_air.warmup_until)) < 0

\* C16: a due tick that finds the sensor in its warm-up window (begin_sampling
\* called and the warm-up deadline not yet reached) performs no sensor bus
\* read, writes no LastSentRecord and makes no POST.
C16_WarmupFrame ==
    (DueTick /\ call.wifi = "connected" /\ InWarmup) =>
        /\ NoSensorRead
        /\ NoRecordWritten
        /\ NoNetworkCall

\* C16 witness: the first due tick, 3 s after boot, came within the 4 s
\* warm-up that the boot started, and skipped
C16_Witness ==
    /\ DueTick
    /\ call.wifi = "connected"
    /\ InWarmup
    /\ call.out = "sampling"
    /\ call.prev_air.warmup_source = Some("boot")
    /\ scheduler.next_send_ms = TicksAdd(CallNow, call.interval_s * 1000)

\* a due tick after the deadline, with the deadline still set, read the sensor
AfterWarmupRead ==
    /\ DueTick
    /\ ~IsNone(call.prev_air.warmup_until)
    /\ ~InWarmup
    /\ call.reads > 0

\* the configuration is empty or has telemetry_enabled false
TelemetryDisabled == ~config.present \/ config.telemetry_enabled = Some(FALSE)

\* the last tick came before next_due: ticks_diff(now, next_due) < 0 for the
\* scheduler it worked on
BeforeNextDue ==
    /\ ~TelemetryDisabled
    /\ scheduler.made
    /\ TicksDiff(CallNow, SchedBefore.next_send_ms) < 0

\* C17: tick is a no-op when telemetry is disabled in the configuration or
\* when now < next_due: it leaves next_due, the LastSentRecord and the queue
\* unchanged and performs no sensor read and no network call.
C17_NoOpFrame ==
    call.op = "tick" =>
        /\ TelemetryDisabled =>
              /\ scheduler = call.prev_sched
              /\ NoRecordWritten /\ NoSensorRead /\ NoNetworkCall
              /\ last_due = call.prev_due
        /\ BeforeNextDue =>
              /\ scheduler = SchedBefore
              /\ NoRecordWritten /\ NoSensorRead /\ NoNetworkCall
              /\ last_due = call.prev_due

\* C17 witness: after a send that left a record and a queue, a tick before the
\* next due time changed nothing
C17_Witness ==
    /\ call.op = "tick"
    /\ BeforeNextDue
    /\ call.prev_sched.made
    /\ ~IsNone(last_sent)
    /\ queue # <<>>
    /\ call.out = "not_due"

\* a tick with telemetry_enabled false changed nothing
DisabledTick ==
    /\ call.op = "tick"
    /\ config = CfgOff
    /\ call.out = "disabled"
    /\ scheduler = SchedNone

-----------------------------------------------------------------------------
(* Claims: the retry loop's report *)

\* the last acquisition's retry loop ended by timeout and the Reading built
\* from its result came back
LoopTimedOut ==
    /\ AcquisitionReturned
    /\ call.ran
    /\ call.timed_out
    /\ ~Get(call.ret).ready

\* the iterations of the last acquisition's loop that read a raw sample
SamplesRead == {i \in 1..call.reads : ~IsNone(BusAt(call.bus.ens, i))}

\* the most recently read raw sample
MostRecentSample ==
    Get(BusAt(call.bus.ens, CHOOSE i \in SamplesRead : \A j \in SamplesRead : j <= i))

\* C18: when the sensor retry loop times out, it reports the 'read failed'
\* reason only if no raw sample was obtained in any iteration of the loop; if
\* at least one raw sample was read during the loop, it returns the most
\* recently read raw sample (even if invalid) with the 'not ready' reason.
C18_ReadFailedOnlyWithoutSample ==
    LoopTimedOut =>
        /\ Get(call.ret).reason = "ens160 read failed" => SamplesRead = {}
        /\ SamplesRead # {} =>
              /\ Get(call.ret).reason = "ens160 not ready"
              /\ BuiltFrom(Get(call.ret), MostRecentSample)

\* the part that holds: the report follows the final iteration alone, 'read
\* failed' with 0 / 0 / 0 if it raised, else its sample with 'not ready'
ReportFollowsFinalIteration ==
    (LoopTimedOut /\ call.reads > 0) =>
        IF IsNone(LastRawSample)
        THEN /\ Get(call.ret).reason = "ens160 read failed"
             /\ BuiltFrom(Get(call.ret), MkSample(0, 0, 0))
        ELSE /\ Get(call.ret).reason = "ens160 not ready"
             /\ BuiltFrom(Get(call.ret), Get(LastRawSample))

\* a loop that read a sample and then only raised reported 'read failed'
SampleThenReadFailed ==
    /\ LoopTimedOut
    /\ SamplesRead # {}
    /\ Get(call.ret).reason = "ens160 read failed"

\* a loop that raised and then read invalid samples reported 'not ready'
RaiseThenNotReady ==
    /\ LoopTimedOut
    /\ IsNone(BusAt(call.bus.ens, 1))
    /\ Get(call.ret).reason = "ens160 not ready"
    /\ Get(call.ret).eco2_ppm = 0

-----------------------------------------------------------------------------
(* Gate specification: _build_values hands a values map to                   *)
(* _values_has_real_data; the maps are drawn key by key, absent or set, at   *)
(* and around the limits of the gate                                         *)

GateEco2 == {None, Some(-1), Some(0), Some(1), Some(650)}

GateTvoc == {None, Some(0), Some(10)}

GateTemp == {None, Some(-21), Some(-20), Some(21), Some(80), Some(81)}

GateRh == {None, Some(-1), Some(0), Some(40), Some(100), Some(101)}

GateReady == {None, Some(TRUE), Some(FALSE)}

GateRtc == {None, Some(31)}

\* the maps _build_values can return: note = "no_reading" marks the map that
\* has no other key (aqi and confidence, which the gate does not read, absent)
GateValues ==
    {MkValues(eco2, tvoc, temp, rh, None, ready, None, rtc,
              IF eco2 = None /\ tvoc = None /\ temp = None /\ rh = None
                 /\ ready = None /\ rtc = None
              THEN Some("no_reading") ELSE None) :
        eco2 \in GateEco2, tvoc \in GateTvoc, temp \in GateTemp, rh \in GateRh,
        ready \in GateReady, rtc \in GateRtc}

\* values = self._build_values(...) of a tick
GateInit ==
    /\ queue = <<>>
    /\ last_error = ""
    /\ client_env = "ok"
    /\ air = AirNew
    /\ scheduler = SchedNone
    /\ last_sent = None
    /\ config = MkCfg(TRUE, None, None)
    /\ uptime = 0
    /\ boot_ticks = 0
    /\ last_due = None
    /\ call \in {[op |-> "build_values", values |-> v, ret |-> None] : v \in GateValues}
    /\ enq_count = 0
    /\ drain_ok = FALSE

\* self._values_has_real_data(values)
GateApply ==
    /\ call.op = "build_values"
    /\ call' = [call EXCEPT !.op = "values_has_real_data",
                            !.ret = Some(ValuesHasRealData(call.values))]
    /\ UNCHANGED <<queue, last_error, client_env, air, scheduler, last_sent, config,
                   uptime, boot_ticks, last_due, enq_count, drain_ok>>

GateNext == GateApply

SpecGate == GateInit /\ [][GateNext]_vars

-----------------------------------------------------------------------------
(* Claims: the real-data gate *)

\* the gate was applied to call.values
GateApplied == call.op = "values_has_real_data"

\* the map holds a plausible value under one of the four keys
HasPlausibleValue(v) ==
    \/ v.eco2_ppm # None /\ Get(v.eco2_ppm) > 0
    \/ v.tvoc_ppb # None /\ Get(v.tvoc_ppb) > 0
    \/ v.temp_c # None /\ Get(v.temp_c) >= -20 /\ Get(v.temp_c) <= 80
    \/ v.rh # None /\ Get(v.rh) >= 0 /\ Get(v.rh) <= 100

\* the map holds nothing but the RTC temperature
RtcTempAlone(v) ==
    /\ v.rtc_temp_c # None
    /\ v.eco2_ppm = None /\ v.tvoc_ppb = None /\ v.temp_c = None /\ v.rh = None

\* C19: the real-data gate accepts a values map if and only if the reading is
\* not flagged not-ready and at least one of these holds: eco2_ppm > 0,
\* tvoc_ppb > 0, temp_c within [-20, 80], humidity within [0, 100]; an external
\* clock-source temperature alone never makes the gate accept.
C19_GateIff ==
    GateApplied =>
        /\ Get(call.ret) <=> (call.values.ready # Some(FALSE) /\ HasPlausibleValue(call.values))
        /\ RtcTempAlone(call.values) => ~Get(call.ret)

\* C19 witness: a map whose only plausible value is a temperature at the
\* lower limit, with no ready flag, was accepted
C19_Witness ==
    /\ GateApplied
    /\ Get(call.ret)
    /\ call.values.temp_c = Some(-20)
    /\ call.values.eco2_ppm = Some(0)
    /\ call.values.tvoc_ppb = Some(0)
    /\ call.values.rh = Some(101)
    /\ call.values.ready = None

\* a map with the RTC temperature alone was rejected
RtcAloneRejected ==
    /\ GateApplied
    /\ RtcTempAlone(call.values)
    /\ call.values.ready = Some(TRUE)
    /\ ~Get(call.ret)

\* a map with plausible values and ready = false was rejected
NotReadyRejected ==
    /\ GateApplied
    /\ call.values.ready = Some(FALSE)
    /\ HasPlausibleValue(call.values)
    /\ ~Get(call.ret)

-----------------------------------------------------------------------------
(* Claims: the bound of a drain *)

\* the last operation ran a drain: flush_queue itself, or a send whose POST
\* succeeded
DrainRan ==
    \/ call.op = "flush_queue"
    \/ call.op = "send" /\ AnyOk(call.posts)

\* the bound of that drain: max_to_try after int() and the floor of 1, or the
\* 8 that send passes
DrainBound == IF call.op = "send" THEN 8 ELSE FlushMax(call.arg)

\* C20: one flush_queue(max_items) call POSTs at most max_items queued items,
\* taken from the front of the queue oldest first, and keeps every item beyond
\* that bound in the queue without attempting it; the drain run by a
\* successful send uses the bound 8.
C20_FlushBound ==
    DrainRan =>
        /\ Len(call.drain) <= DrainBound
        /\ \A i \in 1..Len(call.drain) : call.drain[i].item = call.before[i]
        /\ Len(call.before) > DrainBound =>
              /\ Len(queue) >= Len(call.before) - DrainBound
              /\ LastN(queue, Len(call.before) - DrainBound) = DropN(call.before, DrainBound)

\* the part that holds: at most the bound's POSTs, of the front items in
\* order, and every payload beyond the bound is still in the queue by value
FlushBoundByValue ==
    DrainRan =>
        /\ Len(call.drain) <= DrainBound
        /\ \A i \in 1..Len(call.drain) : call.drain[i].item = call.before[i]
        /\ \A i \in (DrainBound + 1)..Len(call.before) : InList(call.before[i], queue)

\* flush_queue(1) on [A, A, B] with the POST of A failing left [A, B]: the
\* second A, beyond the bound and never attempted, is gone
BeyondBoundDropped ==
    /\ call.op = "flush_queue"
    /\ call.arg = Some(1)
    /\ call.before = <<PayloadA, PayloadA, PayloadB>>
    /\ Len(call.drain) = 1
    /\ queue = <<PayloadA, PayloadB>>

\* flush_queue(2) whose two POSTs succeeded kept the rest of the queue
BeyondBoundKept ==
    /\ call.op = "flush_queue"
    /\ call.arg = Some(2)
    /\ Len(call.before) = 4
    /\ Len(call.drain) = 2
    /\ queue = DropN(call.before, 2)

-----------------------------------------------------------------------------
(* Claims: queue order *)

\* s is t with some items left out, the others in t's order
RECURSIVE IsSubSeq(_, _)
IsSubSeq(s, t) ==
    IF s = <<>> THEN TRUE
    ELSE IF t = <<>> THEN FALSE
    ELSE IF Head(s) = Head(t) THEN IsSubSeq(Tail(s), Tail(t))
    ELSE IsSubSeq(s, Tail(t))

\* the queue a drain has to leave: what it found, less the items whose POST
\* succeeded
AfterDrain == DropN(call.before, Cardinality({i \in 1..Len(call.drain) : call.drain[i].ok}))

\* the queue an enqueue of the call's payload has to leave
AfterEnqueue == LastN(Append(call.before, Get(call.payload)), MAX_ITEMS)

\* the drain POSTed the head of the queue, item by item
DrainInQueueOrder ==
    /\ Len(call.drain) <= Len(call.before)
    /\ \A i \in 1..Len(call.drain) : call.drain[i].item = call.before[i]

\* C21: after any sequence of sends, enqueues and drains, any two payloads
\* that are both in the persistent queue appear in the order in which they
\* were enqueued, and queued payloads are POSTed in that order; no operation
\* reorders or merges queued payloads.
C21_QueueFifo ==
    /\ call.op = "_enqueue" => queue = AfterEnqueue
    /\ call.op = "flush_queue" => DrainInQueueOrder /\ queue = AfterDrain
    /\ call.op = "send" =>
          IF AnyOk(call.posts)
          THEN DrainInQueueOrder /\ queue = AfterDrain
          ELSE call.drain = <<>> /\ queue = AfterEnqueue

\* the part that holds: POSTs go in queue order and what stays keeps its
\* order, but payloads equal by value may have been merged into one
QueueOrderKept ==
    /\ call.op = "_enqueue" => queue = AfterEnqueue
    /\ call.op = "flush_queue" => DrainInQueueOrder /\ IsSubSeq(queue, AfterDrain)
    /\ call.op = "send" =>
          IF AnyOk(call.posts)
          THEN DrainInQueueOrder /\ IsSubSeq(queue, AfterDrain)
          ELSE call.drain = <<>> /\ queue = AfterEnqueue

\* a drain that stopped at a failed B merged the two A behind it
QueuedPayloadsMerged ==
    /\ call.op = "flush_queue"
    /\ call.before = <<PayloadB, PayloadA, PayloadC, PayloadA>>
    /\ queue = <<PayloadB, PayloadA, PayloadC>>

-----------------------------------------------------------------------------
(* Claims: the interval *)

\* the last operation was a due tick under a configuration that sets
\* telemetry_post_every_s
DueWithConfiguredInterval ==
    /\ call.op = "tick"
    /\ call.due
    /\ ~IsNone(config.telemetry_post_every_s)

IntervalFloorUnlessZero ==
    (DueWithConfiguredInterval /\ Get(config.telemetry_post_every_s) # 0) =>
        /\ call.interval_s = Max2(10, Get(config.telemetry_post_every_s))
        /\ call.raised # Some("OverflowError") =>
              scheduler.next_send_ms = TicksAdd(CallNow, call.interval_s * 1000)

\* a configured 0 gave the default of 120 s, not the floor of 10 s
ZeroIntervalIsDefault ==
    /\ DueWithConfiguredInterval
    /\ config.telemetry_post_every_s = Some(0)
    /\ call.interval_s = 120
    /\ scheduler.next_send_ms = TicksAdd(CallNow, 120000)

-----------------------------------------------------------------------------
(* Confidence specification: calculate_co2_confidence on inputs drawn flag   *)
(* by flag, with eCO2 and AQI values at and around the steps of the          *)
(* stability terms, above and below the previous values                      *)

ConfEco2 == {400, 449, 450, 549, 550, 699, 700}

ConfLastEco2 == {None, Some(400), Some(700)}

ConfAqi == {None, Some(1), Some(2), Some(3)}

ConfLastAqi == {None, Some(1), Some(3)}

ConfSources == {"button", "fallback"}

ConfInputs ==
    [ens_valid : BOOLEAN, warmup_done : BOOLEAN, temp_ok : BOOLEAN, rh_ok : BOOLEAN,
     eco2_ppm : ConfEco2, last_eco2_ppm : ConfLastEco2, aqi : ConfAqi,
     last_aqi : ConfLastAqi, source : ConfSources]

\* the keyword arguments of a calculate_co2_confidence call
ConfInit ==
    /\ queue = <<>>
    /\ last_error = ""
    /\ client_env = "ok"
    /\ air = AirNew
    /\ scheduler = SchedNone
    /\ last_sent = None
    /\ config = MkCfg(TRUE, None, None)
    /\ uptime = 0
    /\ boot_ticks = 0
    /\ last_due = None
    /\ call \in {[op |-> "arguments", args |-> a, ret |-> None] : a \in ConfInputs}
    /\ enq_count = 0
    /\ drain_ok = FALSE

\* calculate_co2_confidence(**args)
ConfApply ==
    /\ call.op = "arguments"
    /\ call' = [call EXCEPT
                   !.op = "calculate_co2_confidence",
                   !.ret = Some(CalculateCo2Confidence(
                                call.args.ens_valid, call.args.warmup_done,
                                call.args.temp_ok, call.args.rh_ok, call.args.eco2_ppm,
                                call.args.last_eco2_ppm, call.args.aqi, call.args.last_aqi,
                                call.args.source))]
    /\ UNCHANGED <<queue, last_error, client_env, air, scheduler, last_sent, config,
                   uptime, boot_ticks, last_due, enq_count, drain_ok>>

ConfNext == ConfApply

SpecConf == ConfInit /\ [][ConfNext]_vars

-----------------------------------------------------------------------------
(* Claims: the confidence score *)

ConfApplied == call.op = "calculate_co2_confidence"

\* |eco2 - previous eco2| of the call's arguments
ConfEco2Delta ==
    IF call.args.eco2_ppm >= Get(call.args.last_eco2_ppm)
    THEN call.args.eco2_ppm - Get(call.args.last_eco2_ppm)
    ELSE Get(call.args.last_eco2_ppm) - call.args.eco2_ppm

\* |aqi - previous aqi| of the call's arguments
ConfAqiDelta ==
    IF Get(call.args.aqi) >= Get(call.args.last_aqi)
    THEN Get(call.args.aqi) - Get(call.args.last_aqi)
    ELSE Get(call.args.last_aqi) - Get(call.args.aqi)

\* the sum of the seven terms for the call's arguments
ConfSum ==
    (IF call.args.ens_valid THEN 30 ELSE 0)
    + (IF call.args.warmup_done THEN 10 ELSE 0)
    + (IF call.args.temp_ok THEN 10 ELSE 0)
    + (IF call.args.rh_ok THEN 10 ELSE 0)
    + (IF call.args.last_eco2_ppm = None THEN 5
       ELSE IF ConfEco2Delta < 50 THEN 20
       ELSE IF ConfEco2Delta < 150 THEN 12
       ELSE IF ConfEco2Delta < 300 THEN 5
       ELSE 0)
    + (IF call.args.aqi = None \/ call.args.last_aqi = None THEN 0
       ELSE IF ConfAqiDelta <= 1 THEN 15
       ELSE 5)
    + (IF call.args.source = "fallback" THEN 0 ELSE 5)

\* C23: calculate_co2_confidence returns, for every input combination, the sum
\* of: 30 if the sample is valid, 10 if warm-up is done, 10 if temperature is
\* plausible, 10 if humidity is plausible, the eCO2 stability term (20 if
\* |delta| < 50, 12 if < 150, 5 if < 300, else 0; flat 5 when there is no
\* previous eCO2), the AQI term (15 if |delta| <= 1 else 5, only when both AQI
\* values are known) and 5 if the source is not the fallback path, clamped to
\* [1,100]; equal inputs give equal results.
C23_ConfidenceSum ==
    ConfApplied =>
        /\ Get(call.ret) = (IF ConfSum < 1 THEN 1 ELSE IF ConfSum > 100 THEN 100 ELSE ConfSum)
        /\ 1 <= Get(call.ret) /\ Get(call.ret) <= 100

\* C23 witness: with every flag false, eCO2 300 ppm below the previous value,
\* no AQI and the fallback source, the sum is 0 and the result is 1
C23_Witness ==
    /\ ConfApplied
    /\ ~call.args.ens_valid /\ ~call.args.warmup_done
    /\ ~call.args.temp_ok /\ ~call.args.rh_ok
    /\ call.args.eco2_ppm = 400
    /\ call.args.last_eco2_ppm = Some(700)
    /\ call.args.aqi = None
    /\ call.args.source = "fallback"
    /\ Get(call.ret) = 1

\* every term at its highest gives 100
ConfidenceFull ==
    /\ ConfApplied
    /\ ConfSum = 100
    /\ Get(call.ret) = 100

\* eCO2 50 ppm off the previous value scores 12, not 20
Eco2StepAtFifty ==
    /\ ConfApplied
    /\ call.args.eco2_ppm = 450
    /\ call.args.last_eco2_ppm = Some(400)
    /\ call.args.aqi = None
    /\ call.args.source = "fallback"
    /\ ~call.args.ens_valid /\ ~call.args.warmup_done
    /\ ~call.args.temp_ok /\ ~call.args.rh_ok
    /\ Get(call.ret) = 12

-----------------------------------------------------------------------------
(* Claims: the last-accepted history *)

\* the last operation was an acquisition
Acquisition == call.op \in {"finish_sampling", "read_quick"}

\* the acquisition's retry loop ended with a sample that passed the validity
\* heuristic: the reading it built is ready
BuiltReady == call.ran /\ ~call.timed_out

\* the last accepted reading and the eCO2 / AQI values of stability scoring
History(a) == <<a.last, a.last_eco2_ppm, a.last_aqi>>

\* C24: an acquisition whose reading is not ready leaves the sensor's
\* last-accepted history (the last accepted reading and the eCO2/AQI values
\* used for stability scoring) unchanged; only a ready reading replaces it.
C24_HistoryFrame ==
    Acquisition =>
        /\ ~BuiltReady => History(air) = History(call.before)
        /\ History(air) # History(call.before) =>
              /\ BuiltReady
              /\ Get(call.ret).ready
              /\ air.last = call.ret

\* C24 witness: with an accepted reading in history, finish_sampling returned
\* a not-ready reading and the history is as it was
C24_Witness ==
    /\ call.op = "finish_sampling"
    /\ call.ran
    /\ call.timed_out
    /\ ~IsNone(call.ret)
    /\ ~Get(call.ret).ready
    /\ ~IsNone(call.before.last)
    /\ History(air) = History(call.before)

\* a ready reading of other values replaced the last accepted one
HistoryReplaced ==
    /\ Acquisition
    /\ BuiltReady
    /\ ~IsNone(call.before.last)
    /\ air.last = call.ret
    /\ Get(air.last).eco2_ppm # Get(call.before.last).eco2_ppm

-----------------------------------------------------------------------------
(* Claims: the warm-up window *)

\* ticks at the start of the sensor specification's last acquisition: the
\* time it took and the pause after it are behind
AirCallNow == TicksMs(boot_ticks, uptime - call.elapsed - SUMMARY_REFRESH_MS)

\* finish_sampling was called inside the window begin_sampling started
FinishedEarly ==
    /\ call.op = "finish_sampling"
    /\ ~IsNone(call.before.warmup_until)
    /\ TicksDiff(AirCallNow, Get(call.before.warmup_until)) < 0

\* finish_sampling was called with no window open, or after it
FinishedInTime ==
    /\ call.op = "finish_sampling"
    /\ \/ IsNone(call.before.warmup_until)
       \/ TicksDiff(AirCallNow, Get(call.before.warmup_until)) >= 0

\* C25: calling finish_sampling while the warm-up window started by
\* begin_sampling has not elapsed is reported as an error to the caller, is
\* not retried internally, performs no sensor read and leaves the warm-up
\* deadline and source unchanged; once finish_sampling is called after the
\* window has elapsed, the warm-up state is cleared and is_ready() is true.
C25_WarmupWindow ==
    /\ FinishedEarly =>
          /\ call.raised = Some("RuntimeError")
          /\ IsNone(call.ret)
          /\ ~call.ran /\ call.reads = 0 /\ call.elapsed = 0
          /\ air = call.before
    /\ FinishedInTime =>
          /\ call.raised # Some("RuntimeError")
          /\ IsNone(air.warmup_until)
          /\ IsNone(air.warmup_source)
          /\ IsReady(air, TicksMs(boot_ticks, uptime))

\* C25 witness: finish_sampling inside the 4 s window of a button press
\* raised and left the deadline and the source in place
C25_Witness ==
    /\ FinishedEarly
    /\ call.raised = Some("RuntimeError")
    /\ air.warmup_source = Some("button")
    /\ air.warmup_until = call.before.warmup_until

\* finish_sampling after the window read the sensor and cleared the window
WindowCleared ==
    /\ FinishedInTime
    /\ ~IsNone(call.before.warmup_until)
    /\ call.ran
    /\ IsNone(air.warmup_until)

-----------------------------------------------------------------------------
(* Queue-file specification: the client and the pipeline on a device whose   *)
(* queue file cannot be written: one send, flush_queue or _enqueue call, and *)
(* the ticks of the idle loop                                                *)

\* the ways a write of the queue file fails
QueueFileFailures == {"queue_open_fails", "queue_dump_fails"}

QueueFsInit ==
    /\ queue \in PipeQueues \cup {<<PayloadA, PayloadB, PayloadC>>}
    /\ last_error = ""
    /\ client_env \in QueueFileFailures
    /\ config = MkCfg(TRUE, Some(TRUE), Some(MIN_INTERVAL_S))
    /\ boot_ticks = 0
    /\ air = AirNew
    /\ scheduler = SchedNone
    /\ last_sent = None
    /\ uptime = 0
    /\ last_due = None
    /\ call = NoCall
    /\ enq_count = 0
    /\ drain_ok = FALSE

QueueFsNext == ClientSend \/ ClientFlush \/ ClientEnqueue \/ Tick \/ Elapse

SpecQueueFs == QueueFsInit /\ [][QueueFsNext]_vars

-----------------------------------------------------------------------------
(* Claims: a queue file that cannot be written *)

\* the last operation tried to write the queue file, and the write failed
QueueWriteFailed ==
    /\ client_env \in QueueFileFailures
    /\ \/ call.op = "send" /\ (~AnyOk(call.posts) \/ call.before # <<>>)
       \/ call.op = "flush_queue" /\ call.before # <<>>
       \/ call.op = "tick" /\ call.posts # <<>> /\ (~AnyOk(call.posts) \/ call.before # <<>>)

\* the pair send returns for the POSTs it made
SendPair(posts) ==
    IF AnyOk(posts) THEN [ok |-> TRUE, msg |-> "sent"]
    ELSE [ok |-> FALSE, msg |-> "queued: " \o posts[Len(posts)].msg]

\* C26: a failure while writing the queue file never propagates out of send()
\* or flush_queue(): send still returns its (ok, status) pair and the
\* scheduler still writes the LastSentRecord for that tick.
C26_QueueWriteSwallowed ==
    QueueWriteFailed =>
        /\ call.op = "flush_queue" => IsNone(call.raised)
        /\ call.op = "send" =>
              /\ IsNone(call.raised)
              /\ call.ret = Some(SendPair(call.posts))
        /\ call.op = "tick" =>
              /\ IsNone(call.raised) /\ IsNone(call.propagated)
              /\ call.ret = Some(SendPair(call.posts))
              /\ call.wrote = Some([ts |-> Get(call.recorded_at), ok |-> AnyOk(call.posts)])
              /\ call.fs = "ok" => last_sent = call.wrote

\* C26 witness: a tick whose POSTs all failed could not store the payload
\* (the queue file is as it was), send returned (False, "queued: ...") and
\* the tick recorded ok = false
C26_Witness ==
    /\ QueueWriteFailed
    /\ client_env = "queue_open_fails"
    /\ call.op = "tick"
    /\ ~AnyOk(call.posts)
    /\ Len(call.posts) = SEND_RETRIES
    /\ queue = call.before
    /\ ~Get(call.ret).ok
    /\ last_sent = Some([ts |-> Get(call.recorded_at), ok |-> FALSE])

\* a drain whose write failed half way left a queue file that reads as empty
QueueFileTruncated ==
    /\ QueueWriteFailed
    /\ client_env = "queue_dump_fails"
    /\ call.op = "send"
    /\ Get(call.ret).ok
    /\ Len(call.before) = 3
    /\ Len(call.drain) = 1
    /\ queue = <<>>

-----------------------------------------------------------------------------
(* Drain specification: the idle loop of main.py, "telemetry.tick(cfg);      *)
(* sleep" for ever, on a device that boots with payloads in its queue.       *)
(* Until GoodFromMs the link, the sensor and the server may fail; from then  *)
(* on the link is up, the sensor is ready and every POST succeeds. The loop  *)
(* never ends, so both of its steps are taken again and again (weak          *)
(* fairness); the model follows it for MaxDrainUptime                        *)

\* the pause between two ticks
DrainStepMs == 5000

\* from this uptime on every tick finds the link up and every POST succeeds
GoodFromMs == 10000

\* the uptime to which the loop is followed
MaxDrainUptime == 60000

\* lengths of the queue a boot finds: empty, more than one drain of 8, more
\* than two
DrainQueueLens == {0, 9, 17}

\* what a tick may find before GoodFromMs, and what it finds after
DrainInputs ==
    IF uptime < GoodFromMs
    THEN {MkTickIn(config, "ok", "wraps", wifi, bus, "epoch", None, "ok", net, "ok") :
             wifi \in {"connected", "down"}, bus \in {BusReady, BusNotReady},
             net \in {<<R200>>, <<R200, FailScript[1]>>, SubSeq(FailScript, 1, SEND_RETRIES)}}
    ELSE {MkTickIn(config, "ok", "wraps", "connected", BusReady, "epoch", None, "ok",
                   <<R200>>, "ok")}

DrainInit ==
    /\ queue \in {[i \in 1..n |-> CapPayload(i)] : n \in DrainQueueLens}
    /\ last_error = ""
    /\ client_env = "ok"
    /\ config = MkCfg(TRUE, Some(TRUE), Some(MIN_INTERVAL_S))
    /\ boot_ticks = 0
    /\ air = AirNew
    /\ scheduler = SchedNone
    /\ last_sent = None
    /\ uptime = 0
    /\ last_due = None
    /\ call = NoCall
    /\ enq_count = 0
    /\ drain_ok = FALSE

\* telemetry.tick(cfg, rtc_dict=rtc) of the idle loop
DrainTick ==
    /\ call.op # "tick"
    /\ \E in \in DrainInputs : DoTick(in)

\* time.sleep_ms of the idle loop
DrainElapse ==
    /\ call.op = "tick"
    /\ uptime + DrainStepMs <= MaxDrainUptime
    /\ uptime' = uptime + DrainStepMs
    /\ call' = [NoCall EXCEPT !.op = "sleep"]
    /\ UNCHANGED <<queue, last_error, client_env, air, scheduler, last_sent, config,
                   boot_ticks, last_due, enq_count, drain_ok>>

DrainNext == DrainTick \/ DrainElapse

\* the tick step is enabled whenever the loop stands before it, so its weak
\* fairness says that the loop stands after a tick again and again
DrainTickFair == []<>(call.op = "tick")

SpecDrain ==
    DrainInit /\ [][DrainNext]_vars /\ WF_vars(DrainElapse) /\ DrainTickFair

-----------------------------------------------------------------------------
(* Claims: the queue drains *)

\* C27: queued payloads are retried on later successful sends: if from some
\* point on every POST succeeds, telemetry stays enabled, ticks keep coming
\* due and readings pass the gate, then the persistent queue eventually
\* becomes empty and stays empty.
C27_QueueDrains == <>[](queue = <<>>)

\* C27 witness: a successful send drained the last payloads of a queue that
\* was longer than one drain when the device booted
C27_Witness ==
    /\ call.op = "tick"
    /\ call.out = "sent"
    /\ uptime >= GoodFromMs
    /\ call.before # <<>>
    /\ Len(call.drain) = Len(call.before)
    /\ queue = <<>>
    /\ enq_count + 17 > 2 * SEND_FLUSH_MAX
    /\ DueTicks >= 3

\* before GoodFromMs a failed send added a payload to the queue
DrainQueueGrew ==
    /\ call.op = "tick"
    /\ call.out = "queued"
    /\ Len(queue) = 18

-----------------------------------------------------------------------------
(* Retry-loop specification: AirSensor._read_ens160_with_retry step by step  *)
(* (the loop test, the bus access of an iteration, its sleep), for drawn     *)
(* timeout_ms, step_ms, bus times and bus scripts, on the wrapping counter   *)

\* the same loop test with the arguments of ticks_diff exchanged
LoopRunsSwapped(now, start, timeout_ms) == TicksDiff(start, now) < timeout_ms

\* the loop test: time.ticks_diff(time.ticks_ms(), start) < int(timeout_ms)
LoopRuns(now, start, timeout_ms) == TicksDiff(now, start) < timeout_ms

\* a sleep that spans an eighth of the counter's period
LongStepMs == TICKS_PERIOD \div 8

\* (step_ms, milliseconds one bus access takes): the clock advances in every
\* iteration
LoopPaces == {<<0, 20>>, <<200, 1>>, <<250, 20>>, <<250, 0>>}

LoopTimeouts == {-1, 0, 1, QUICK_TIMEOUT_MS, 4000, READ_ONCE_TIMEOUT_MS}

\* timeouts near the half-period of the counter, with the long sleep
LoopLongTimeouts == {TICKS_HALF - LongStepMs, TICKS_HALF}

LoopScripts ==
    {Always(SampleZero), AlwaysRaising, <<Some(SampleZero), None>>,
     <<None, Some(SampleEco0)>>,
     <<Some(SampleAqi6), Some(SampleTvocOver), Some(SampleGood)>>,
     LateValid, Always(SampleGood)}

LoopArgs ==
    {[timeout_ms |-> t, step_ms |-> p[1], io_ms |-> p[2], script |-> s] :
        t \in LoopTimeouts, p \in LoopPaces, s \in LoopScripts}
    \cup {[timeout_ms |-> t, step_ms |-> LongStepMs, io_ms |-> 0, script |-> s] :
        t \in LoopLongTimeouts, s \in LoopScripts}

\* elapsed milliseconds are followed for one period of the counter
LoopElapsed(e, d) == IF e + d > TICKS_PERIOD THEN TICKS_PERIOD ELSE e + d

\* start = time.ticks_ms(); last = None
LoopInit ==
    /\ queue = <<>>
    /\ last_error = ""
    /\ client_env = "ok"
    /\ air = AirNew
    /\ scheduler = SchedNone
    /\ last_sent = None
    /\ config = MkCfg(TRUE, None, None)
    /\ uptime = 0
    /\ boot_ticks \in {0, TICKS_PERIOD - QUICK_TIMEOUT_MS}
    /\ last_due = None
    /\ call \in {[op |-> "_read_ens160_with_retry", pc |-> "test", args |-> a,
                  start |-> TicksMs(boot_ticks, 0), now |-> TicksMs(boot_ticks, 0),
                  last |-> None, reads |-> 0, elapsed |-> 0, ret |-> None] :
                    a \in LoopArgs}
    /\ enq_count = 0
    /\ drain_ok = FALSE

\* the while test; when it fails the loop returns what "last" holds
LoopTest ==
    /\ call.pc = "test"
    /\ call' = IF LoopRuns(call.now, call.start, call.args.timeout_ms)
               THEN [call EXCEPT !.pc = "read"]
               ELSE [call EXCEPT
                        !.pc = "done",
                        !.ret = Some(LoopTimeout(call.last, call.reads,
                                                 call.args.step_ms + call.args.io_ms))]
    /\ UNCHANGED <<queue, last_error, client_env, air, scheduler, last_sent, config,
                   uptime, boot_ticks, last_due, enq_count, drain_ok>>

\* set_environment and read_air_raw of one iteration: a valid sample returns,
\* an exception resets "last"
LoopRead ==
    /\ call.pc = "read"
    /\ \E got \in {BusAt(call.args.script, call.reads + 1)} :
       \E n \in {IF call.elapsed < TICKS_PERIOD THEN call.reads + 1 ELSE call.reads} :
          call' = IF ~IsNone(got) /\ EnsValuesLookReady(Get(got))
                  THEN [call EXCEPT
                           !.pc = "done",
                           !.now = TicksAdd(call.now, call.args.io_ms),
                           !.elapsed = LoopElapsed(call.elapsed, call.args.io_ms),
                           !.last = got,
                           !.reads = n,
                           !.ret = Some([sample |-> Get(got), ready |-> TRUE,
                                         reason |-> "", reads |-> n,
                                         elapsed |-> LoopElapsed(call.elapsed,
                                                                 call.args.io_ms),
                                         timed_out |-> FALSE])]
                  ELSE [call EXCEPT
                           !.pc = "sleep",
                           !.now = TicksAdd(call.now, call.args.io_ms),
                           !.elapsed = LoopElapsed(call.elapsed, call.args.io_ms),
                           !.last = got,
                           !.reads = n]
    /\ UNCHANGED <<queue, last_error, client_env, air, scheduler, last_sent, config,
                   uptime, boot_ticks, last_due, enq_count, drain_ok>>

\* time.sleep_ms(int(step_ms))
LoopSleep ==
    /\ call.pc = "sleep"
    /\ call' = [call EXCEPT
                   !.pc = "test",
                   !.now = TicksAdd(call.now, call.args.step_ms),
                   !.elapsed = LoopElapsed(call.elapsed, call.args.step_ms)]
    /\ UNCHANGED <<queue, last_error, client_env, air, scheduler, last_sent, config,
                   uptime, boot_ticks, last_due, enq_count, drain_ok>>

LoopNext == LoopTest \/ LoopRead \/ LoopSleep

\* the loop is one thread of control: its next statement is always taken
SpecLoop == LoopInit /\ [][LoopNext]_vars /\ WF_vars(LoopNext)

-----------------------------------------------------------------------------
(* Claims: termination of the retry loop *)

LoopDone == call.pc = "done"

LoopPer == call.args.step_ms + call.args.io_ms

\* the timeout and one further iteration fit the half-period over which
\* ticks_diff measures elapsed time
LoopInDomain == call.args.timeout_ms + LoopPer <= TICKS_HALF

\* no read before the k-th returned a valid sample
NoValidBefore(k) == \A j \in 1..(k - 1) : ~LooksReadyAt(call.args.script, j)

\* the loop returned at the timeout, after a last iteration that began before it
ReturnedAtTimeout ==
    /\ Get(call.ret).timed_out
    /\ ~Get(call.ret).ready
    /\ call.elapsed >= call.args.timeout_ms
    /\ call.reads > 0 => call.elapsed - LoopPer < call.args.timeout_ms
    /\ call.reads = 0 => call.elapsed = 0
    /\ NoValidBefore(call.reads + 1)

\* the loop returned the first valid sample, read before the timeout
ReturnedFirstValid ==
    /\ ~Get(call.ret).timed_out
    /\ Get(call.ret).ready
    /\ LooksReadyAt(call.args.script, call.reads)
    /\ Get(call.ret).sample = Get(BusAt(call.args.script, call.reads))
    /\ NoValidBefore(call.reads)
    /\ call.elapsed - call.args.io_ms < call.args.timeout_ms

\* the step-by-step loop returns what ReadEns160WithRetry computes
LoopAgreesWithResult ==
    LoopDone /\ LoopInDomain /\ LoopPer > 0 =>
        Get(call.ret) = ReadEns160WithRetry(call.args.script, call.args.timeout_ms,
                                            call.args.step_ms, call.args.io_ms)

\* C28, as stated: for every timeout_ms and step_ms and every behaviour of
\* the bus, the retry loop returns
C28_LoopReturnsAlways == <>LoopDone

\* C28, within the range of ticks_diff: when timeout_ms plus the time of one
\* iteration is at most half the period of the ticks counter, the retry loop
\* returns, and it returns either the first valid sample or, with no valid
\* sample, as soon as the elapsed time has reached timeout_ms
C28_LoopReturns ==
    /\ LoopInDomain => <>LoopDone
    /\ [](LoopDone /\ LoopInDomain => ReturnedAtTimeout \/ ReturnedFirstValid)

\* a loop on a bus that always raises has run to its timeout across the wrap
\* of the counter, and returned
C28_Witness ==
    /\ LoopDone
    /\ LoopInDomain
    /\ call.args.script = AlwaysRaising
    /\ call.args.timeout_ms = READ_ONCE_TIMEOUT_MS
    /\ call.now < call.start
    /\ call.reads > 1
    /\ ReturnedAtTimeout
    /\ Get(call.ret).reason = "ens160 read failed"

\* a loop with a timeout of half the period is still running a whole period
\* after it started
LoopStillRunning ==
    /\ ~LoopDone
    /\ ~LoopInDomain
    /\ call.elapsed = TICKS_PERIOD

\* a valid sample at a late read ends the loop before the timeout
LoopEndedEarly ==
    /\ LoopDone
    /\ ReturnedFirstValid
    /\ call.reads = LateReads
    /\ call.elapsed < call.args.timeout_ms

-----------------------------------------------------------------------------
(* POST specification: _post, send and flush_queue under every outcome of    *)
(* requests.post: statuses around the 2xx range, a response without          *)
(* status_code, the exceptions of the three handlers, and a client that has  *)
(* no urequests or no device credentials                                     *)

\* j.dumps(payload) raising, which the "except Exception" branch catches
DumpsFails == Raises("TypeError", 0)

PostResponses ==
    {Status(199), R200, Status(299), Status(300), Status(404),
     Raises("no_status", 0), Raises("MemoryError", 0), Raises("OSError", 110),
     Raises("Exception", 0), DumpsFails}

\* one response per POST of a call: up to three attempts, or an attempt and
\* the drain behind it
PostScripts == SeqsUpTo(PostResponses, SEND_RETRIES) \ {<<>>}

PostArgs ==
    {[payload |-> PayloadA, retries |-> r, net |-> net] :
        r \in {None, Some(1)}, net \in PostScripts}

PostInit ==
    /\ PipeFresh
    /\ queue \in {<<>>, <<PayloadB>>, <<PayloadB, PayloadC>>}
    /\ last_error = ""
    /\ client_env \in {"ok", "no_urequests", "missing_device_auth"}
    /\ call \in {[op |-> "arguments", args |-> a, before |-> <<>>, ret |-> None] :
                    a \in PostArgs}
    /\ enq_count = 0
    /\ drain_ok = FALSE

\* _post(payload)
PostApply ==
    /\ call.op = "arguments"
    /\ call.args.retries = None
    /\ Len(call.args.net) = 1
    /\ call' = [call EXCEPT
                   !.op = "_post",
                   !.before = queue,
                   !.ret = Some(Post(call.args.payload, NetAt(call.args.net, 1),
                                     client_env))]
    /\ UNCHANGED <<queue, last_error, client_env, enq_count, drain_ok, pipeVars>>

\* send(payload, retries)
PostSend ==
    /\ call.op = "arguments"
    /\ \E s \in {Send(queue, call.args.payload, call.args.retries, call.args.net,
                      client_env)} :
          /\ queue' = s.queue
          /\ last_error' = s.last_error
          /\ call' = [call EXCEPT !.op = "send", !.before = queue, !.ret = Some(s)]
          /\ enq_count' = enq_count + Len(s.enqueues)
          /\ drain_ok' = (drain_ok \/ AnyOk(s.drain))
    /\ UNCHANGED <<client_env, pipeVars>>

\* flush_queue()
PostFlush ==
    /\ call.op = "arguments"
    /\ call.args.retries = None
    /\ \E f \in {FlushQueue(queue, None, call.args.net, 0, client_env, last_error)} :
          /\ queue' = f.queue
          /\ last_error' = f.last_error
          /\ call' = [call EXCEPT !.op = "flush_queue", !.before = queue, !.ret = Some(f)]
          /\ drain_ok' = (drain_ok \/ AnyOk(f.posts))
    /\ UNCHANGED <<client_env, enq_count, pipeVars>>

PostNext == PostApply \/ PostSend \/ PostFlush

SpecPost == PostInit /\ [][PostNext]_vars

-----------------------------------------------------------------------------
(* Claims: what counts as a successful POST *)

\* a response was obtained and its status is in [200, 300)
Is2xx(resp) == client_env = "ok" /\ resp.kind = "status" /\ 200 <= resp.code /\ resp.code < 300

\* the POSTs of the call (base + 1, base + 2, ... of the script) succeeded
\* exactly on a 2xx response
PostsOkIff2xx(posts, base) ==
    \A i \in 1..Len(posts) : posts[i].ok <=> Is2xx(NetAt(call.args.net, base + i))

\* send: a failed attempt is followed by another one, or it is the last of
\* the retries and the payload is put at the tail of the queue and reported
\* as queued
FailedAttemptRetriedOrQueued(s) ==
    \A i \in 1..Len(s.posts) :
        ~s.posts[i].ok =>
            \/ i < Len(s.posts)
            \/ /\ i = SendRetries(call.args.retries)
               /\ ~s.ok
               /\ s.enqueues = <<call.args.payload>>
               /\ queue = Append(call.before, call.args.payload)

\* flush_queue: the item whose POST failed is still in the queue
FailedItemStaysQueued(posts) ==
    \A i \in 1..Len(posts) : ~posts[i].ok => InList(posts[i].item, queue)

\* C29: a POST succeeds exactly when a response with a status in [200, 300)
\* was obtained; in send every other outcome is followed by another attempt
\* or by the payload being queued, and send reports success exactly when an
\* attempt succeeded; in flush_queue the item of a failed POST stays queued
C29_PostSuccessIff2xx ==
    /\ call.op = "_post" =>
          Get(call.ret).ok <=> Is2xx(NetAt(call.args.net, 1))
    /\ call.op = "send" =>
          /\ PostsOkIff2xx(Get(call.ret).posts, 0)
          /\ PostsOkIff2xx(Get(call.ret).drain, Len(Get(call.ret).posts))
          /\ FailedAttemptRetriedOrQueued(Get(call.ret))
          /\ FailedItemStaysQueued(Get(call.ret).drain)
          /\ Get(call.ret).ok <=> AnyOk(Get(call.ret).posts)
    /\ call.op = "flush_queue" =>
          /\ PostsOkIff2xx(Get(call.ret).posts, 0)
          /\ FailedItemStaysQueued(Get(call.ret).posts)

\* a send whose attempts met a 300, a missing status and a 299: two failures
\* retried, the third attempt a success
C29_Witness ==
    /\ call.op = "send"
    /\ client_env = "ok"
    /\ call.args.net = <<Status(300), Raises("no_status", 0), Status(299)>>
    /\ Len(Get(call.ret).posts) = 3
    /\ Get(call.ret).ok
    /\ Get(call.ret).posts[1].msg = "HTTP 300"
    /\ Get(call.ret).posts[2].msg = "no_status"

\* a send whose attempts all failed (199, out of memory, serialization) queued
\* the payload
AllFailuresQueued ==
    /\ call.op = "send"
    /\ client_env = "ok"
    /\ call.args.net = <<Status(199), Raises("MemoryError", 0), DumpsFails>>
    /\ ~Get(call.ret).ok
    /\ Get(call.ret).msg = "queued: EXC TypeError()"
    /\ Len(queue) = Len(call.before) + 1

\* without device credentials a 200 script is a failure
NoCredentialsFails ==
    /\ call.op = "_post"
    /\ client_env = "missing_device_auth"
    /\ call.args.net = <<R200>>
    /\ ~Get(call.ret).ok

-----------------------------------------------------------------------------
(* Claims: the backoff sleeps of send *)

SendDone == call.op = "send"

\* 1, 2, 4, ...: n delays that start at 1 s and double
Doubling(n) == [i \in 1..n |-> 2 ^ (i - 1)]

\* C30: the sleeps of send lie between its POST attempts: they start at 1 s
\* and double, and there is one sleep less than there are attempts, because
\* no sleep follows the final attempt
C30_SleepsBetweenAttempts ==
    SendDone => call.sleeps = Doubling(Len(call.posts) - 1)

\* what send does: delays that start at 1 s and double, one after every
\* failed attempt
SleepAfterEveryFailure ==
    SendDone =>
        call.sleeps = Doubling(Cardinality({i \in 1..Len(call.posts) : ~call.posts[i].ok}))

\* three failed attempts, three sleeps: 4 s pass after the final failure
\* before the payload is queued
SleepAfterFinalFailure ==
    /\ SendDone
    /\ Len(call.posts) = SEND_RETRIES
    /\ ~call.posts[SEND_RETRIES].ok
    /\ call.sleeps = <<1, 2, 4>>
    /\ queue = Append(call.before, Get(call.payload))

\* a send that succeeds at the second attempt slept once, between the two
SleepBetweenAttempts ==
    /\ SendDone
    /\ Len(call.posts) = 2
    /\ call.posts[2].ok
    /\ call.sleeps = <<1>>

-----------------------------------------------------------------------------
(* Due-check specification: the idle loop calls telemetry.tick at times      *)
(* around the moment the next send falls due, on a ticks counter that wraps  *)
(* at different distances from boot. The first tick, at uptime 0, creates    *)
(* the scheduler                                                             *)

\* milliseconds after boot at which the next send falls due: FIRST_SEND_MS
\* after the scheduler was created, or the interval after the last due tick
NextDueUp(due) ==
    IF IsNone(due) THEN FIRST_SEND_MS
    ELSE Get(due).at + Get(due).interval_s * 1000

\* where the loop comes back to tick, relative to the due time: just before,
\* at, just after, 5 s late, and half a counter period late
DueOffsets == {-1, 0, 1, 5000, TICKS_HALF - 1, TICKS_HALF}

\* the counter wraps at, just before, just after and 8 s after the first due
\* time, or far from it
DueBoots ==
    {0, TICKS_PERIOD - FIRST_SEND_MS, TICKS_PERIOD - FIRST_SEND_MS - 1,
     TICKS_PERIOD - FIRST_SEND_MS + 1, TICKS_PERIOD - FIRST_SEND_MS - 8000,
     TICKS_HALF - FIRST_SEND_MS}

DueInit ==
    /\ queue = <<>>
    /\ last_error = ""
    /\ client_env = "ok"
    /\ config \in {MkCfg(TRUE, Some(TRUE), Some(MIN_INTERVAL_S)), MkCfg(TRUE, None, None)}
    /\ boot_ticks \in DueBoots
    /\ air = AirNew
    /\ scheduler = SchedNone
    /\ last_sent = None
    /\ uptime = 0
    /\ last_due = None
    /\ call = NoCall
    /\ enq_count = 0
    /\ drain_ok = FALSE

\* telemetry.tick(cfg, rtc_dict=rtc) with the link down or up
DueCheckTick ==
    /\ call.op # "tick"
    /\ DueTicks < MaxDueTicks
    /\ \E wifi \in {"down", "connected"} :
          DoTick(MkTickIn(config, "ok", "wraps", wifi, BusReady, "epoch", None, "ok",
                          <<R200>>, "ok"))

\* the loop sleeps, or a screen keeps it, until a moment around the due time,
\* within one counter period of boot
DueElapse ==
    /\ call.op = "tick"
    /\ \E off \in DueOffsets :
          /\ NextDueUp(last_due) + off > uptime
          /\ NextDueUp(last_due) + off < TICKS_PERIOD
          /\ uptime' = NextDueUp(last_due) + off
    /\ call' = [NoCall EXCEPT !.op = "sleep"]
    /\ UNCHANGED <<queue, last_error, client_env, air, scheduler, last_sent, config,
                   boot_ticks, last_due, enq_count, drain_ok>>

DueNext == DueCheckTick \/ DueElapse

SpecDue == DueInit /\ [][DueNext]_vars

-----------------------------------------------------------------------------
(* Claims: the due check on the wrapping counter *)

\* the last tick worked on a scheduler that existed before it
CheckedTick == call.op = "tick" /\ call.prev_sched.made

\* real milliseconds from the due time to the last tick
LateBy == call.at - NextDueUp(call.prev_due)

\* the last tick came within half a counter period of the due time
WithinHalfPeriod == -TICKS_HALF <= LateBy /\ LateBy < TICKS_HALF

\* C31: the due check is wrap-safe: a tick within half a counter period of
\* next_due passes the due check exactly when real time has reached next_due,
\* also when the counter wrapped between setting next_due and the check
C31_DueWrapSafe ==
    CheckedTick /\ WithinHalfPeriod => (call.due <=> LateBy >= 0)

\* a tick 1 ms after the due time was taken as due although the counter
\* wrapped in between: its ticks value is below the stored next_send_ms
C31_Witness ==
    /\ CheckedTick
    /\ WithinHalfPeriod
    /\ LateBy = 1
    /\ call.due
    /\ CallNow < call.prev_sched.next_send_ms
    /\ call.prev_sched.next_send_ms = TICKS_PERIOD - 1

\* a tick 1 ms before a due time that lies past the wrap is not due
EarlyTickAcrossWrap ==
    /\ CheckedTick
    /\ LateBy = -1
    /\ ~call.due
    /\ CallNow > call.prev_sched.next_send_ms

\* a tick that comes half a counter period late is not taken as due
HalfPeriodLateNotDue ==
    /\ CheckedTick
    /\ LateBy = TICKS_HALF
    /\ ~call.due

\* the second due time is met exactly, across a wrap after the first
SecondDueAcrossWrap ==
    /\ CheckedTick
    /\ call.due
    /\ LateBy = 0
    /\ ~IsNone(call.prev_due)
    /\ CallNow < TicksMs(boot_ticks, Get(call.prev_due).at)

-----------------------------------------------------------------------------
(* Configuration file: save_config step by step on a flash that holds        *)
(* config.json and config.json.tmp, a stop of execution after any step, and  *)
(* the load_config of the next boot                                          *)

FileAbsent == [kind |-> "absent", cfg |-> MkCfg(FALSE, None, None)]

\* a file that was opened for writing and not written to the end
FilePartial == [kind |-> "partial", cfg |-> MkCfg(FALSE, None, None)]

FileOf(cfg) == [kind |-> "complete", cfg |-> cfg]

\* DEFAULTS: telemetry_enabled True, telemetry_post_every_s 120
DEFAULTS == MkCfg(TRUE, Some(TRUE), Some(DEFAULT_INTERVAL_S))

\* the defaults for missing keys, then _normalize_types: a bool, and an
\* interval of at least 10
NormalizeTypes(cfg) ==
    MkCfg(TRUE,
          IF IsNone(cfg.telemetry_enabled) THEN Some(TRUE) ELSE cfg.telemetry_enabled,
          IF IsNone(cfg.telemetry_post_every_s) THEN Some(DEFAULT_INTERVAL_S)
          ELSE IF Get(cfg.telemetry_post_every_s) < MIN_INTERVAL_S THEN Some(MIN_INTERVAL_S)
          ELSE cfg.telemetry_post_every_s)

\* load_config: the dict of config.json, {} when the file is missing or does
\* not parse, completed and normalized
LoadConfig(file) ==
    IF file.kind = "complete" THEN NormalizeTypes(file.cfg) ELSE DEFAULTS

\* load_config saves what it returns when it changed something or found no file
LoadConfigFile(file) ==
    IF file.kind = "complete" /\ NormalizeTypes(file.cfg) = file.cfg
    THEN file
    ELSE FileOf(LoadConfig(file))

\* configurations the screens save
SavedCfgs ==
    {MkCfg(TRUE, Some(TRUE), Some(DEFAULT_INTERVAL_S)),
     MkCfg(TRUE, Some(FALSE), Some(DEFAULT_INTERVAL_S)),
     MkCfg(TRUE, Some(TRUE), Some(MIN_INTERVAL_S)),
     MkCfg(TRUE, Some(FALSE), Some(300)),
     MkCfg(TRUE, Some(TRUE), Some(600))}

\* save_config(new) is called on a flash that holds the previous configuration
SaveInit ==
    /\ air = AirNew
    /\ scheduler = SchedNone
    /\ last_sent = None
    /\ uptime = 0
    /\ boot_ticks = 0
    /\ last_due = None
    /\ queue = <<>>
    /\ last_error = ""
    /\ client_env = "ok"
    /\ enq_count = 0
    /\ drain_ok = FALSE
    /\ call \in {[op |-> "save_config", pc |-> "open", old |-> o, new |-> n,
                  file |-> FileOf(o), tmp |-> t, stopped_at |-> "none"] :
                    o \in SavedCfgs, n \in SavedCfgs, t \in {FileAbsent, FilePartial}}
    /\ call.old # call.new
    /\ config = call.old

SaveUnchanged ==
    UNCHANGED <<queue, last_error, client_env, air, scheduler, last_sent, uptime,
                boot_ticks, last_due, enq_count, drain_ok>>

\* open(tmp_file, "w")
SaveOpenTmp ==
    /\ call.pc = "open"
    /\ call' = [call EXCEPT !.pc = "dump", !.tmp = FilePartial]
    /\ UNCHANGED config
    /\ SaveUnchanged

\* json.dump(cfg, f) and the close of the with block
SaveDump ==
    /\ call.pc = "dump"
    /\ call' = [call EXCEPT !.pc = "remove", !.tmp = FileOf(call.new)]
    /\ UNCHANGED config
    /\ SaveUnchanged

\* json.dump raises (the flash is full): save_config raises with it
SaveDumpRaises ==
    /\ call.pc = "dump"
    /\ call' = [call EXCEPT !.pc = "raised"]
    /\ UNCHANGED config
    /\ SaveUnchanged

\* os.remove(CONFIG_FILE)
SaveRemove ==
    /\ call.pc = "remove"
    /\ call' = [call EXCEPT !.pc = "rename", !.file = FileAbsent]
    /\ UNCHANGED config
    /\ SaveUnchanged

\* os.rename(tmp_file, CONFIG_FILE)
SaveRename ==
    /\ call.pc = "rename"
    /\ call' = [call EXCEPT !.pc = "done", !.file = call.tmp, !.tmp = FileAbsent]
    /\ UNCHANGED config
    /\ SaveUnchanged

\* execution stops: a crash or a loss of power
SaveStop ==
    /\ call.pc \in {"open", "dump", "remove", "rename", "done", "raised"}
    /\ call' = [call EXCEPT !.pc = "stopped", !.stopped_at = call.pc]
    /\ UNCHANGED config
    /\ SaveUnchanged

\* the next boot: cfg = load_config()
SaveReload ==
    /\ call.pc = "stopped"
    /\ config' = LoadConfig(call.file)
    /\ call' = [call EXCEPT !.op = "load_config", !.pc = "loaded",
                            !.file = LoadConfigFile(call.file)]
    /\ SaveUnchanged

SaveNext ==
    \/ SaveOpenTmp
    \/ SaveDump
    \/ SaveDumpRaises
    \/ SaveRemove
    \/ SaveRename
    \/ SaveStop
    \/ SaveReload

SpecSave == SaveInit /\ [][SaveNext]_vars

-----------------------------------------------------------------------------
(* Claims: save_config *)

\* C32: at whatever step save_config stops, config.json holds the complete
\* previous or the complete new configuration, and the load_config of the
\* next boot returns one of the two
C32_ConfigSurvivesStop ==
    /\ call.pc # "loaded" => call.file \in {FileOf(call.old), FileOf(call.new)}
    /\ call.pc = "loaded" => config \in {call.old, call.new}

\* what the steps keep: a complete copy of the previous or of the new
\* configuration is on the flash, in config.json or in the temp file
CompleteCopyOnFlash ==
    call.pc # "loaded" =>
        \/ call.file \in {FileOf(call.old), FileOf(call.new)}
        \/ call.file = FileAbsent /\ call.tmp = FileOf(call.new)

\* a stop between os.remove and os.rename: the next boot finds no
\* config.json, returns the defaults and writes them, with telemetry on again
StopAfterRemoveLoadsDefaults ==
    /\ call.pc = "loaded"
    /\ call.stopped_at = "rename"
    /\ call.old = MkCfg(TRUE, Some(FALSE), Some(300))
    /\ call.new = MkCfg(TRUE, Some(FALSE), Some(DEFAULT_INTERVAL_S))
    /\ config = DEFAULTS
    /\ call.file = FileOf(DEFAULTS)
    /\ call.tmp = FileOf(call.new)

\* a stop during the write of the temp file keeps the previous configuration
StopDuringDumpKeepsOld ==
    /\ call.pc = "loaded"
    /\ call.stopped_at = "dump"
    /\ config = call.old
    /\ call.tmp = FilePartial

-----------------------------------------------------------------------------
(* AirBuddyButton: poll_action *)

\* click_window_s = 0.8
CLICK_WINDOW_MS == 800

DEBOUNCE_MS == 50

DEBUG_HOLD_MS == 2000

\* AirBuddyButton.__init__ and reset at ticks now with the pin at level (0
\* is pressed)
ButtonNew(now, level) ==
    [last_level |-> level, stable_level |-> level, last_change_ms |-> now,
     press_start_ms |-> None, click_count |-> 0, click_window_start_ms |-> None]

\* "single", "double", "triple", and "quad" for anything else
ActionName(n) ==
    IF n = 1 THEN "single" ELSE IF n = 2 THEN "double" ELSE IF n = 3 THEN "triple" ELSE "quad"

\* the result of a poll: the button after it, the action returned, and what
\* the poll saw (a debounced press, a debounced release with its held_ms, a
\* release counted as a click)
PollResult(b, ret, edge, held_ms, counted) ==
    [btn |-> b, ret |-> ret, edge |-> edge, held_ms |-> held_ms, counted |-> counted]

\* lines 84-86: a raw transition restarts the debounce timing
PollTrack(b, now, level) ==
    IF level # b.last_level
    THEN [b EXCEPT !.last_level = level, !.last_change_ms = now]
    ELSE b

\* lines 116-140, after the edge handling left b: the debug hold, then the
\* expiry of the click window
PollTail(b, now, edge, held_ms, counted) ==
    IF /\ b.stable_level = 0
       /\ ~IsNone(b.press_start_ms)
       /\ TicksDiff(now, Get(b.press_start_ms)) >= DEBUG_HOLD_MS
    THEN PollResult([b EXCEPT !.press_start_ms = None, !.click_count = 0,
                              !.click_window_start_ms = None],
                    Some("debug"), edge, held_ms, counted)
    ELSE IF /\ b.click_count > 0
            /\ ~IsNone(b.click_window_start_ms)
            /\ TicksDiff(now, Get(b.click_window_start_ms)) >= CLICK_WINDOW_MS
    THEN PollResult([b EXCEPT !.click_count = 0, !.click_window_start_ms = None],
                    Some(ActionName(b.click_count)), edge, held_ms, counted)
    ELSE PollResult(b, None, edge, held_ms, counted)

\* lines 98-114: a debounced release; a press shorter than debug_hold_ms is a
\* click, and the fourth click returns "quad" at once
PollRelease(b, now) ==
    IF IsNone(b.press_start_ms) THEN PollTail(b, now, "release", None, FALSE)
    ELSE LET held_ms == TicksDiff(now, Get(b.press_start_ms))
             c == [b EXCEPT
                      !.press_start_ms = None,
                      !.click_window_start_ms =
                          IF b.click_count = 0 THEN Some(now) ELSE @,
                      !.click_count = @ + 1]
         IN IF held_ms >= DEBUG_HOLD_MS
            THEN PollTail([b EXCEPT !.press_start_ms = None], now, "release",
                          Some(held_ms), FALSE)
            ELSE IF c.click_count >= 4
            THEN PollResult([c EXCEPT !.click_count = 0, !.click_window_start_ms = None],
                            Some("quad"), "release", Some(held_ms), TRUE)
            ELSE PollTail(c, now, "release", Some(held_ms), TRUE)

\* AirBuddyButton.poll_action at ticks now with the pin at level
PollAction(btn, now, level) ==
    LET b == PollTrack(btn, now, level)
    IN IF level # b.stable_level /\ TicksDiff(now, b.last_change_ms) >= DEBOUNCE_MS
       THEN IF level = 0
            THEN PollTail([b EXCEPT !.stable_level = 0, !.press_start_ms = Some(now)],
                          now, "press", None, FALSE)
            ELSE PollRelease([b EXCEPT !.stable_level = 1], now)
       ELSE PollTail(b, now, "none", None, FALSE)

-----------------------------------------------------------------------------
(* Button specification: a screen loop polls the button every 50 ms, or      *)
(* after a redraw of 400 ms, while the pin goes down and up. Besides the     *)
(* button the record of the last poll keeps what an observer of the polls    *)
(* counts: the clicks since the last action and when the first of them was   *)
(* counted, and the debug actions since the last debounced press             *)

MaxBtnUptime == 3600

PollSteps == {50, 400}

\* the observer's counts after a poll with result r at ticks now
ObserveClicks(c, r) == IF r.counted THEN c.clicks + 1 ELSE c.clicks

ObserveFirst(c, r, now) ==
    IF r.counted /\ c.clicks = 0 THEN Some(now) ELSE c.first_click_at

ObserveDebugs(c, r) ==
    (IF r.edge = "press" THEN 0 ELSE c.hold_debugs) + (IF r.ret = Some("debug") THEN 1 ELSE 0)

ButtonInit ==
    /\ PipeFresh
    /\ queue = <<>>
    /\ last_error = ""
    /\ client_env = "ok"
    /\ enq_count = 0
    /\ drain_ok = FALSE
    /\ call \in {[op |-> "reset", btn |-> ButtonNew(TicksMs(boot_ticks, 0), level),
                  pin |-> level, ret |-> None, edge |-> "none", held_ms |-> None,
                  counted |-> FALSE, clicks_seen |-> 0, first_seen |-> None,
                  clicks |-> 0, first_click_at |-> None, hold_debugs |-> 0] :
                    level \in {0, 1}}

\* the loop comes back after d ms and calls poll_action with the pin at level
ButtonPoll ==
    \E d \in PollSteps, level \in {0, 1} :
        /\ uptime + d <= MaxBtnUptime
        /\ uptime' = uptime + d
        /\ \E r \in {PollAction(call.btn, TicksMs(boot_ticks, uptime + d), level)} :
              call' = [op |-> "poll_action", btn |-> r.btn, pin |-> level, ret |-> r.ret,
                       edge |-> r.edge, held_ms |-> r.held_ms, counted |-> r.counted,
                       clicks_seen |-> ObserveClicks(call, r),
                       first_seen |-> ObserveFirst(call, r, uptime + d),
                       clicks |-> IF IsNone(r.ret) THEN ObserveClicks(call, r) ELSE 0,
                       first_click_at |-> IF IsNone(r.ret)
                                          THEN ObserveFirst(call, r, uptime + d)
                                          ELSE None,
                       hold_debugs |-> ObserveDebugs(call, r)]
        /\ UNCHANGED <<queue, last_error, client_env, air, scheduler, last_sent, config,
                       boot_ticks, last_due, enq_count, drain_ok>>

ButtonNext == ButtonPoll

SpecButton == ButtonInit /\ [][ButtonNext]_vars

-----------------------------------------------------------------------------
(* Claims: button actions *)

Polled == call.op = "poll_action"

ClickActions == {Some("single"), Some("double"), Some("triple")}

\* a click is counted only at a debounced release: the button was stably
\* pressed, and the pin has been up for debounce_ms
CountedOnDebouncedRelease ==
    Polled /\ call.counted =>
        /\ call.edge = "release"
        /\ call.pin = 1
        /\ call.btn.stable_level = 1
        /\ uptime - call.btn.last_change_ms >= DEBOUNCE_MS
        /\ Get(call.held_ms) < DEBUG_HOLD_MS

\* single, double or triple is returned for as many clicks as were counted
\* since the last action, at the first poll at which the window that the
\* first of them opened has expired
ClicksEmittedAtExpiry ==
    /\ Polled /\ call.ret \in ClickActions =>
          /\ call.ret = Some(ActionName(call.clicks_seen))
          /\ call.clicks_seen \in 1..3
          /\ uptime - Get(call.first_seen) >= CLICK_WINDOW_MS
    /\ Polled /\ call.clicks > 0 =>
          uptime - Get(call.first_click_at) < CLICK_WINDOW_MS

\* the fourth click returns quad in the poll that counts it
QuadAtFourthClick ==
    /\ Polled /\ call.clicks_seen >= 4 => call.ret = Some("quad") /\ call.counted
    /\ Polled /\ call.ret = Some("quad") => call.clicks_seen = 4 /\ call.counted

\* at most one debug per hold, and the release of a hold that returned debug
\* is not counted
DebugOncePerHold ==
    /\ Polled => call.hold_debugs <= 1
    /\ Polled /\ call.edge = "release" /\ call.hold_debugs = 1 => ~call.counted

\* a debounced press that is released, debounced, debug_hold_ms or more later
\* has returned debug
DebugForEveryLongHold ==
    Polled /\ call.edge = "release" /\ ~IsNone(call.held_ms) =>
        (Get(call.held_ms) >= DEBUG_HOLD_MS => call.hold_debugs = 1)

\* after an action the click count is 0 and the window is cleared
ClearedAfterAction ==
    Polled /\ ~IsNone(call.ret) =>
        /\ call.btn.click_count = 0
        /\ IsNone(call.btn.click_window_start_ms)

\* C33: clicks are counted on the debounced release; 1, 2 or 3 clicks give
\* one action when their window expires; the fourth click gives quad at
\* once; every hold of debug_hold_ms or more gives debug once and its release
\* is not a click; after an action the count is 0 and the window is cleared
C33_ButtonActions ==
    /\ CountedOnDebouncedRelease
    /\ ClicksEmittedAtExpiry
    /\ QuadAtFourthClick
    /\ DebugOncePerHold
    /\ DebugForEveryLongHold
    /\ ClearedAfterAction

\* a press released after 1950 ms and debounced at 2000 ms: held_ms is
\* debug_hold_ms, and the press is neither a click nor a debug
LongHoldDropped ==
    /\ Polled
    /\ call.edge = "release"
    /\ call.held_ms = Some(DEBUG_HOLD_MS)
    /\ call.hold_debugs = 0
    /\ ~call.counted
    /\ IsNone(call.ret)

TripleEmitted == Polled /\ call.ret = Some("triple")

QuadEmitted == Polled /\ call.ret = Some("quad")

DebugEmitted == Polled /\ call.ret = Some("debug") /\ call.pin = 0

-----------------------------------------------------------------------------
(* Online screen: its handshake sends a ping through a TelemetryClient of    *)
(* its own, which shares the queue file with the scheduler's client          *)

\* "values": {"online_ping": 1}: none of the keys _build_values writes
PingValues ==
    [eco2_ppm |-> None, tvoc_ppb |-> None, temp_c |-> None, rh |-> None,
     aqi |-> None, ready |-> None, confidence |-> None, rtc_temp_c |-> None,
     note |-> None, online_ping |-> Some(1)]

\* the handshake payload
PingPayload(recorded_at) ==
    [recorded_at |-> recorded_at, values |-> PingValues, flags |-> [handshake |-> TRUE]]

\* gc.collect(); time.sleep_ms(200) before the send
HANDSHAKE_SLEEP_MS == 200

\* the network of a handshake: every POST succeeds, or none
HandshakeNets == {<<R200>>, SubSeq(FailScript, 1, SEND_RETRIES)}

\* OnlineScreen._handshake with the link as wifi says and the network net:
\* nothing is sent when telemetry is off or the link is down
OnlineHandshake ==
    /\ call.op # "handshake"
    /\ enq_count < MaxQLen
    /\ \E wifi \in {"connected", "down"}, net \in HandshakeNets :
       \E sends \in {CfgEnabled(NormalizeTypes(config)) /\ wifi = "connected"} :
       \E s \in {Send(queue, PingPayload(NowUnixSeconds("epoch", uptime + HANDSHAKE_SLEEP_MS)),
                      None, net, client_env)} :
          /\ (~sends => net = <<R200>>)
          /\ uptime + HANDSHAKE_SLEEP_MS + 1000 * SumSeq(s.sleeps) <= MaxUptime
          /\ queue' = IF sends THEN s.queue ELSE queue
          /\ last_error' = IF sends THEN s.last_error ELSE last_error
          /\ uptime' = IF sends
                       THEN uptime + HANDSHAKE_SLEEP_MS + 1000 * SumSeq(s.sleeps)
                       ELSE uptime
          /\ call' = [op |-> "handshake", wifi |-> wifi, before |-> queue,
                      payload |-> IF sends THEN Some(s.posts[1].item) ELSE None,
                      posts |-> IF sends THEN s.posts ELSE <<>>,
                      drain |-> IF sends THEN s.drain ELSE <<>>,
                      sleeps |-> IF sends THEN s.sleeps ELSE <<>>,
                      ret |-> IF sends THEN Some([ok |-> s.ok, msg |-> s.msg]) ELSE None,
                      enqueues |-> IF sends THEN Len(s.enqueues) ELSE 0]
          /\ enq_count' = enq_count + (IF sends THEN Len(s.enqueues) ELSE 0)
          /\ drain_ok' = (drain_ok \/ (sends /\ AnyOk(s.drain)))
    /\ UNCHANGED <<client_env, air, scheduler, last_sent, config, boot_ticks, last_due>>

\* a boot with telemetry on and the 10 s interval, or off
OnlineInit ==
    /\ queue \in PipeQueues
    /\ last_error = ""
    /\ client_env = "ok"
    /\ config \in {MkCfg(TRUE, Some(TRUE), Some(MIN_INTERVAL_S)), CfgOff}
    /\ boot_ticks = 0
    /\ air = AirNew
    /\ scheduler = SchedNone
    /\ last_sent = None
    /\ uptime = 0
    /\ last_due = None
    /\ call = NoCall
    /\ enq_count = 0
    /\ drain_ok = FALSE

\* the idle loop ticks, and the user opens the Online screen at any time
OnlineNext == Tick \/ Elapse \/ OnlineHandshake

SpecOnline == OnlineInit /\ [][OnlineNext]_vars

-----------------------------------------------------------------------------
(* Claims: only gated payloads reach the queue and the server *)

\* every payload of the list of POSTs passes the real-data gate
PostsGated(posts) == \A i \in 1..Len(posts) : ValuesHasRealData(posts[i].item.values)

\* the POSTs of the last operation
LastPosts == IF call.op \in {"tick", "handshake"} THEN call.posts \o call.drain ELSE <<>>

\* C34: every payload that is POSTed or stored in the queue, by the scheduler
\* or by the Online screen handshake, has values that pass the real-data gate
C34_OnlyGatedPayloads ==
    /\ \A i \in 1..Len(queue) : ValuesHasRealData(queue[i].values)
    /\ PostsGated(LastPosts)

\* the payloads the scheduler builds pass the gate before they are sent
SchedulerPayloadGated ==
    call.op = "tick" /\ ~IsNone(call.payload) =>
        ValuesHasRealData(Get(call.payload).values)

\* a handshake whose POSTs failed left its ping in the queue
PingQueued ==
    /\ call.op = "handshake"
    /\ call.enqueues = 1
    /\ queue # <<>>
    /\ queue[Len(queue)].values = PingValues
    /\ ~ValuesHasRealData(PingValues)

\* a later due tick of the scheduler POSTs the queued ping to the server
PingDrainedByTick ==
    /\ call.op = "tick"
    /\ \E i \in 1..Len(call.drain) :
          call.drain[i].item.values = PingValues /\ call.drain[i].ok

\* a handshake POSTs the ping
PingPosted ==
    /\ call.op = "handshake"
    /\ call.posts # <<>>
    /\ call.posts[1].ok
    /\ call.posts[1].item.values = PingValues

-----------------------------------------------------------------------------
(* Queue-read specification: one send, flush_queue or _enqueue call on a     *)
(* queue file that is read, or whose read fails in one of three ways; a file *)
(* whose JSON is not a list stores no payloads                               *)

QueueReadInit ==
    /\ PipeFresh
    /\ client_env \in {"ok"} \cup QueueReadFailures
    /\ queue \in (IF client_env = "queue_not_list" THEN {<<>>}
                  ELSE SeqsUpTo(ClientPayloads, 2))
    /\ last_error = ""
    /\ call = NoCall
    /\ enq_count = 0
    /\ drain_ok = FALSE

QueueReadNext == ClientSend \/ ClientFlush \/ ClientEnqueue

SpecQueueRead == QueueReadInit /\ [][QueueReadNext]_vars

-----------------------------------------------------------------------------
(* Claims: enqueue and what was stored before *)

\* the last operation put a payload into the queue file
EnqueuedNow == call.op \in {"send", "_enqueue"} /\ enq_count = 1

\* the items stored before the call (all but those the capacity evicts) are
\* stored after it, in front of the new payload
StoredItemsKept ==
    /\ queue # <<>>
    /\ queue[Len(queue)] = Get(call.payload)
    /\ SubSeq(queue, 1, Len(queue) - 1) = LastN(call.before, MAX_ITEMS - 1)

\* C35: for every outcome of reading the queue file at enqueue time, the
\* items stored before the call are still stored after it, up to the
\* eviction by capacity
C35_EnqueueKeepsStored == EnqueuedNow => StoredItemsKept

\* when the file is read, the stored items are kept
StoredItemsKeptWhenRead == EnqueuedNow /\ client_env = "ok" => StoredItemsKept

\* an enqueue whose read of the file ran out of memory replaced two stored
\* payloads by the new one
ReadFailureDropsStored ==
    /\ call.op = "_enqueue"
    /\ client_env = "queue_read_oom"
    /\ call.before = <<PayloadA, PayloadB>>
    /\ queue = <<PayloadC>>

\* the same through send, after three failed POSTs
SendAfterReadFailureDropsStored ==
    /\ call.op = "send"
    /\ client_env = "queue_read_fails"
    /\ Len(call.before) = 2
    /\ queue = <<Get(call.payload)>>

-----------------------------------------------------------------------------
(* Claims: the stability baseline of AirSensor *)

\* C36: whenever a last accepted reading exists, the stored last eCO2 and
\* last AQI equal the eco2_ppm and aqi of that reading
C36_BaselineConsistent ==
    ~IsNone(air.last) =>
        /\ air.last_eco2_ppm = Some(Get(air.last).eco2_ppm)
        /\ air.last_aqi = Some(Get(air.last).aqi)

\* the baseline is that of the last reading finish_sampling accepted
BaselineAfterFinishSampling ==
    call.op = "finish_sampling" /\ ~IsNone(call.ret) /\ Get(call.ret).ready =>
        /\ air.last = call.ret
        /\ air.last_eco2_ppm = Some(Get(call.ret).eco2_ppm)
        /\ air.last_aqi = Some(Get(call.ret).aqi)

\* read_quick accepted a reading of 900 ppm and the baseline still holds the
\* 650 ppm of the reading before it
BaselineStaleAfterReadQuick ==
    /\ call.op = "read_quick"
    /\ ~IsNone(air.last)
    /\ Get(air.last).eco2_ppm = 900
    /\ air.last_eco2_ppm = Some(650)
    /\ air.last_aqi = Some(2)
    /\ Get(air.last).aqi = 3

\* read_quick accepted the first reading and there is no baseline
NoBaselineAfterReadQuick ==
    /\ call.op = "read_quick"
    /\ ~IsNone(air.last)
    /\ IsNone(air.last_eco2_ppm)
    /\ IsNone(air.last_aqi)

-----------------------------------------------------------------------------
(* The idle loop of run() and the Logging screen *)

\* the last operation, with the position of run() and the config file:
\*   pc       "idle" in the inner loop of the idle loop, "logging" inside
\*            LoggingScreen.show_live
\*   flash    the config file
\*   toggled  what the last _apply_toggle switched telemetry to
MenuCall(c, pc, flash, toggled) ==
    c @@ [pc |-> pc, flash |-> flash, toggled |-> toggled]

\* _apply_toggle: cfg = load_config(), the flag inverted
ApplyToggle(file) ==
    LET cfg == LoadConfig(file)
    IN [cfg EXCEPT !.telemetry_enabled = Some(~Get(cfg.telemetry_enabled))]

\* the config files a boot finds: telemetry switched on or off
MenuFiles ==
    {FileOf(MkCfg(TRUE, Some(TRUE), Some(MIN_INTERVAL_S))),
     FileOf(MkCfg(TRUE, Some(FALSE), Some(MIN_INTERVAL_S)))}

\* run() up to the idle loop: cfg = refresh_cfg_apply()
MenuInit ==
    /\ queue = <<>>
    /\ last_error = ""
    /\ client_env = "ok"
    /\ air = AirNew
    /\ scheduler = SchedNone
    /\ last_sent = None
    /\ uptime = 0
    /\ boot_ticks = 0
    /\ last_due = None
    /\ enq_count = 0
    /\ drain_ok = FALSE
    /\ \E file \in MenuFiles :
          /\ config = LoadConfig(file)
          /\ call = MenuCall([NoCall EXCEPT !.op = "boot"], "idle", file, "none")

menuFrame == <<queue, last_error, client_env, scheduler, last_sent, boot_ticks, last_due,
               enq_count, drain_ok>>

\* telemetry.tick(cfg, rtc_dict=rtc) of the inner loop, with the cfg the loop
\* holds
MenuTick ==
    /\ call.pc = "idle"
    /\ call.op # "tick"
    /\ DueTicks < MaxDueTicks
    /\ \E in \in {MkTickIn(config, "ok", "wraps", "connected", BusReady, "epoch", None,
                           "ok", <<R200>>, "ok")} :
       \E r \in {StateTick(PipeState, in, uptime, boot_ticks)} :
          /\ scheduler' = r.sched
          /\ air' = r.air
          /\ queue' = r.queue
          /\ last_error' = r.last_error
          /\ last_sent' = r.last_sent
          /\ uptime' = uptime + r.elapsed
          /\ last_due' = IF r.due
                         THEN Some([at |-> uptime, interval_s |-> r.interval_s,
                                    n |-> DueTicks + 1])
                         ELSE last_due
          /\ call' = MenuCall(PipeCall(in, r), "idle", call.flash, call.toggled)
          /\ enq_count' = enq_count + r.enqueues
          /\ drain_ok' = (drain_ok \/ AnyOk(r.drain))
    /\ UNCHANGED <<client_env, config, boot_ticks>>

\* time.sleep_ms(25) of the idle loop or of a screen, many times
MenuSleep ==
    /\ \E d \in ElapseSteps :
          /\ uptime + d <= MaxUptime
          /\ uptime' = uptime + d
    /\ call' = MenuCall([NoCall EXCEPT !.op = "sleep"], call.pc, call.flash, call.toggled)
    /\ UNCHANGED <<air, config, menuFrame>>

\* a triple click: the settings loop reloads cfg before each screen, and the
\* GPS, WiFi and Online screens each return "next"; the Logging screen opens
MenuOpenLogging ==
    /\ call.pc = "idle"
    /\ config' = LoadConfig(call.flash)
    /\ call' = MenuCall([NoCall EXCEPT !.op = "show_live"], "logging", call.flash,
                        call.toggled)
    /\ UNCHANGED <<air, uptime, menuFrame>>

\* a double click in the Logging screen: _apply_toggle saves the inverted flag
MenuToggle ==
    /\ call.pc = "logging"
    /\ \E cfg \in {ApplyToggle(call.flash)} :
          call' = MenuCall([NoCall EXCEPT !.op = "_apply_toggle"], "logging", FileOf(cfg),
                           IF Get(cfg.telemetry_enabled) THEN "on" ELSE "off")
    /\ UNCHANGED <<air, config, uptime, menuFrame>>

\* a single click in the Logging screen: show_live returns "next", the settings
\* loop breaks and the inner loop continues with the cfg it has
MenuLeaveLogging ==
    /\ call.pc = "logging"
    /\ call' = MenuCall([NoCall EXCEPT !.op = "next"], "idle", call.flash, call.toggled)
    /\ UNCHANGED <<air, config, uptime, menuFrame>>

\* a single click in the idle loop: the reading flow (spinner, finish_sampling,
\* the screens, read_quick of the summary), then cfg = refresh_cfg_apply() at
\* the top of the idle loop
MenuReading ==
    /\ call.pc = "idle"
    /\ uptime + SUMMARY_REFRESH_MS <= MaxUptime
    /\ \E f \in {FinishSampling(air, BusReady, TicksMs(boot_ticks, uptime + SUMMARY_REFRESH_MS),
                                "epoch", uptime + SUMMARY_REFRESH_MS)} :
       \E q \in {ReadQuick(f.air, BusReady, "summary", "epoch",
                           uptime + SUMMARY_REFRESH_MS + f.elapsed)} :
          /\ air' = q.air
          /\ uptime' = uptime + SUMMARY_REFRESH_MS + f.elapsed + q.elapsed
    /\ config' = LoadConfig(call.flash)
    /\ call' = MenuCall([NoCall EXCEPT !.op = "reading"], "idle", call.flash, call.toggled)
    /\ UNCHANGED menuFrame

MenuNext ==
    \/ MenuTick
    \/ MenuSleep
    \/ MenuOpenLogging
    \/ MenuToggle
    \/ MenuLeaveLogging
    \/ MenuReading

SpecMenu == MenuInit /\ [][MenuNext]_vars

-----------------------------------------------------------------------------
(* Claims: the telemetry toggle of the Logging screen *)

\* the last operation was a tick of the idle loop
IdleTick ==
    /\ call.op = "tick"
    /\ call.pc = "idle"

\* the last tick made no telemetry attempt: no sensor read, no POST, no
\* last-sent write
NoTelemetryAttempt ==
    /\ NoNetworkCall
    /\ NoSensorRead
    /\ IsNone(call.wrote)
    /\ last_sent = call.prev_sent

\* C37: after the Logging screen has switched telemetry off and run() is back
\* in the idle loop, a tick makes no telemetry attempt (no sensor read, no
\* POST, no last-sent write) until the screen switches telemetry on again
C37_NoAttemptAfterToggleOff ==
    (IdleTick /\ call.toggled = "off") => NoTelemetryAttempt

\* a tick that is given the configuration of the file, with telemetry off in
\* it, makes no telemetry attempt
NoAttemptWithReloadedCfg ==
    (IdleTick /\ config = LoadConfig(call.flash) /\ ~CfgEnabled(config))
        => NoTelemetryAttempt

\* telemetry was switched off in the Logging screen, and the next due tick of
\* the idle loop still POSTs a payload: the loop holds the cfg it loaded before
\* the screen opened
StaleCfgPostsAfterToggleOff ==
    /\ IdleTick
    /\ call.toggled = "off"
    /\ ~CfgEnabled(LoadConfig(call.flash))
    /\ CfgEnabled(config)
    /\ call.out = "sent"
    /\ call.posts # <<>>

\* after the reading flow has reloaded cfg, the ticks stop
ReloadStopsTicks ==
    /\ IdleTick
    /\ call.toggled = "off"
    /\ ~CfgEnabled(config)
    /\ call.out = "disabled"

-----------------------------------------------------------------------------
(* Claims: the order of the POSTs of one send *)

\* the last operation was send(payload, retries)
SendCall == call.op = "send"

\* the POSTs of the last send in the order it made them: the attempts of the
\* retry loop, then those of the flush_queue that the successful attempt runs
\* before send returns
SendWire == call.posts \o call.drain

\* position i of the wire carries a payload of the queue
QueuedPostAt(i) == i > Len(call.posts)

\* C38: within one send() no queued payload is POSTed before the POST of the
\* fresh payload has succeeded, and when the fresh payload exhausts its
\* attempts no queued payload is POSTed in that call: the POSTs are the failed
\* attempts of the fresh payload, then its success, then the stored payloads
\* in their order
C38_FreshBeforeQueued ==
    SendCall =>
        LET fresh == Get(call.payload)
            n == Len(call.posts)
        IN /\ n >= 1
           /\ \A i \in 1..n : call.posts[i].item = fresh
           /\ \A i \in 1..(n - 1) : ~call.posts[i].ok
           /\ \A i \in 1..Len(SendWire) :
                 QueuedPostAt(i) =>
                    /\ \E j \in 1..(i - 1) : SendWire[j].item = fresh /\ SendWire[j].ok
                    /\ SendWire[i].item = call.before[i - n]
           /\ ~call.posts[n].ok => call.drain = <<>>

\* a send whose fresh payload failed once, then succeeded, and that POSTed
\* stored payloads after it
C38_Witness ==
    /\ SendCall
    /\ Len(call.posts) >= 2
    /\ call.posts[Len(call.posts)].ok
    /\ Len(call.drain) >= 2
    /\ call.before # <<>>

\* a send that exhausted its attempts over a stored queue and POSTed none of it
ExhaustedSendPostsNoQueued ==
    /\ SendCall
    /\ Len(call.posts) = SEND_RETRIES
    /\ \A i \in 1..Len(call.posts) : ~call.posts[i].ok
    /\ call.before # <<>>
    /\ call.drain = <<>>
    /\ queue = Append(call.before, Get(call.payload))

-----------------------------------------------------------------------------
(* Ticks under a clock that is not set, or is being set *)

EpochClocks == {"epoch", "small", "fails", "turning"}

EpochInit ==
    /\ queue = <<>>
    /\ last_error = ""
    /\ client_env = "ok"
    /\ config = MkCfg(TRUE, Some(TRUE), Some(MIN_INTERVAL_S))
    /\ boot_ticks \in {0, TICKS_PERIOD - WrapSoonMs}
    /\ air = AirNew
    /\ scheduler = SchedNone
    /\ last_sent = None
    /\ uptime = 0
    /\ last_due = None
    /\ call = NoCall
    /\ enq_count = 0
    /\ drain_ok = FALSE

\* telemetry.tick(cfg, rtc_dict=rtc): the clock in any state, the link up or
\* down, the sensor ready or not, the server answering or not
EpochTick ==
    /\ uptime <= MaxUptime
    /\ DueTicks < MaxDueTicks
    /\ call.op # "tick"
    /\ \E clock \in EpochClocks, wifi \in {"connected", "down"},
          bus \in {BusReady, BusNotReady},
          net \in {<<R200>>, SubSeq(FailScript, 1, SEND_RETRIES)} :
          DoTick(MkTickIn(config, "ok", "wraps", wifi, bus, clock, None, "ok", net, "ok"))

EpochNext == EpochTick \/ Elapse

SpecEpoch == EpochInit /\ [][EpochNext]_vars

-----------------------------------------------------------------------------
(* Claims: recorded_at of the payloads *)

\* the last tick read the clock, and it read less than EPOCH_MIN
ClockBelowEpoch ==
    /\ ~IsNone(call.recorded_at)
    /\ Get(call.recorded_at) < EPOCH_MIN

\* every payload POSTed by the last tick, and every payload of the queue, was
\* recorded at EPOCH_MIN or later
PayloadsFromEpoch ==
    /\ \A i \in 1..Len(call.posts) : call.posts[i].item.recorded_at >= EPOCH_MIN
    /\ \A i \in 1..Len(call.drain) : call.drain[i].item.recorded_at >= EPOCH_MIN
    /\ \A i \in 1..Len(queue) : queue[i].recorded_at >= EPOCH_MIN

\* C39: every payload the scheduler sends or queues has
\* recorded_at >= 1000000000; a due tick whose clock reads less makes no POST,
\* enqueues nothing and writes no LastSentRecord, and next_due is advanced
\* all the same
C39_PayloadsFromEpoch ==
    call.op = "tick" =>
        /\ PayloadsFromEpoch
        /\ ~IsNone(call.payload) => Get(call.payload).recorded_at >= EPOCH_MIN
        /\ (DueTick /\ ClockBelowEpoch) =>
              /\ call.out = "not_epoch"
              /\ NoNetworkCall
              /\ IsNone(call.payload)
              /\ IsNone(call.wrote)
              /\ last_sent = call.prev_sent
              /\ scheduler.next_send_ms = TicksAdd(CallNow, call.interval_s * 1000)
              /\ scheduler.next_send_ms # SchedBefore.next_send_ms

\* a due tick with the link up and the sensor ready, under a clock a few
\* seconds short of EPOCH_MIN: nothing is sent, and the next send is moved
C39_Witness ==
    /\ DueTick
    /\ call.wifi = "connected"
    /\ call.bus = BusReady
    /\ call.recorded_at = Some(EPOCH_MIN - ClockTurnsS + 3)
    /\ call.out = "not_epoch"
    /\ scheduler.next_send_ms = TicksAdd(CallNow, MIN_INTERVAL_S * 1000)

\* a due tick whose clock reads exactly EPOCH_MIN sends its payload
SentAtEpochMin ==
    /\ DueTick
    /\ call.recorded_at = Some(EPOCH_MIN)
    /\ call.out = "sent"
    /\ Get(call.payload).recorded_at = EPOCH_MIN

\* a due tick under a clock that fails (recorded_at 0) is skipped after a
\* last-sent record was written by an earlier tick, and the record stays
SkippedKeepsLastSent ==
    /\ DueTick
    /\ call.recorded_at = Some(0)
    /\ call.out = "not_epoch"
    /\ ~IsNone(last_sent)
    /\ last_sent = call.prev_sent

====
